---- MODULE Spec2Model ----
(***************************************************************************)
(* Temporal core of the AEyePro vision pipeline:                           *)
(*   - BlinkDetector      (src/src/AEyePro/vision/blink_detector.py)       *)
(*   - DrowsinessDetector (src/src/vision/drowsiness_detector.py)          *)
(*   - PostureAnalyzer    (src/src/vision/posture_analyzer.py)             *)
(*                                                                         *)
(* Time is the wall clock time.time() in ticks of 1/60 s.  EAR values are  *)
(* in hundredths (0.30 -> 30), angles in degrees.  Python None is the      *)
(* integer None below (no EAR, angle or time stamp of the model equals it).*)
(***************************************************************************)
EXTENDS Integers, Sequences, FiniteSets, TLC

None == 0 - 999

\* the frame period of the 30 fps camera loop the detectors are written for
FramePeriod == 2

\* ---------------------------------------------------------------- bounds
\* time.time() at construction (seconds since the epoch: far above every
\* threshold, which is all the code relies on)
Epoch == 1000
\* the blink model explores BlinkHorizon ticks of wall-clock time
BlinkHorizon == 25
\* a BlinkDetector call comes FramePeriod ticks after the previous one, or
\* late, MaxDt ticks after it
MaxDt == 3
\* number of irregular events explored in one run: frames without EAR, frames
\* that carry a head pose, reset_statistics calls
MaxIrregular == 1

\* the drowsiness model explores DrowsyHorizon ticks of wall-clock time
DrowsyHorizon == 240
\* a DrowsinessDetector call comes DrowsyDt ticks after the previous one, or
\* late, LateFrames * DrowsyDt ticks after it
DrowsyDt == 15
LateFrames == 4
\* number of changes explored in one run: the input to
\* DrowsinessDetector.update differs from the previous one, or reset is called
MaxSwitches == 2

\* ------------------------------------------------- BlinkDetector config
\* health_monitoring section of settings.json, read in __init__
consecutive_frames == 3
ear_th == 20
max_blink_dur == 10
min_blink_gap == 6
max_head_yaw == 20
max_head_pitch == 22

\* -------------------------------------------- DrowsinessDetector config
drowsy_ear_th == 25
ear_duration_th == 60
max_shoulder_tilt == 15
min_gaze_distance_cm == 30
max_gaze_distance_cm == 100
\* constants set in DrowsinessDetector.__init__
posture_window_sec == 180
gaze_off_threshold_sec == 120
EAR_CONSEC_FRAMES == 3
MAX_MISSING_DIST_SEC == 60
DROWSY_RELEASE_SEC == 30
DrowsyEarBufCap == 5

\* 60 s, the session age below which the blink rate is reported as 0
SessionMinute == 3600

\* analyze_blink_pattern: a blink longer than 0.4 s is slow, more than 25
\* blinks a minute is frequent, 10 durations are needed to classify and 5
\* intervals to judge the rhythm
SlowBlinkTicks == 24
FrequentRate == 25
MinPatternSamples == 10
MinRhythmSamples == 5

\* ---------------------------------------------- PostureAnalyzer config
\* AVERAGE_EYE_DISTANCE_CM, camera_focal_length and MIN_EYE_PIXEL_DISTANCE of
\* settings.json; the angle and distance limits are the keys the
\* DrowsinessDetector reads too
avg_eye_cm == 6
focal == 600
min_eye_px == 30
AngleFilterCap == 5
DistFilterCap == 3
\* np.mean of up to AngleFilterCap angles is held in 1/AngleScale degree and
\* np.mean of up to DistFilterCap distances in 1/DistScale cm, so that every
\* mean is an integer
AngleScale == 60
DistScale == 6
\* _normalize_angle_to_zero: the quarter turn and the half turn, in degrees
RightAngle == 90
StraightAngle == 180

\* number of times _normalize_angle_to_zero is applied in a row
NormalizeSteps == 2

\* the longest duration history analyze_blink_pattern is tried on
MaxPatternSamples == 12

\* append calls made on a rolling buffer after it is full
BufferExtra == 3

\* frames the capture thread reads, and process_frame calls the processing
\* loop makes
MaxCaptured == 4
MaxIterations == 5

\* process_frame calls of the posture and drowsiness steps
MaxFrames == 3

\* VisionManager.start() calls
MaxStarts == 3

\* the largest max_retries the graph is built with
MaxRetries == 3

\* deque(maxlen=...) capacities
EarBufferCap == 5
YawQueueCap == 30
HistoryCap == 100

\* ------------------------------------------------------- input alphabets
\* what eye_tracker.get_latest() can hold in a frame: avg_ear, head_pitch,
\* head_yaw (the frame and the contrast are not used by _detect)
Sample(e, p, y) == [ear |-> e, pitch |-> p, yaw |-> y]
PlainSamples == {Sample(e, None, None) : e \in {15, 30}}
IrregularSamples ==
    {Sample(None, None, None)}
    \cup {Sample(e, 0, 0) : e \in {15, 30}}
    \cup {Sample(30, 40, None), Sample(15, 0 - 5, 30)}
Samples == PlainSamples \cup IrregularSamples

\* a value of posture_data in the units of the PostureAnalyzer results
InUnits(x, scale) == IF x = None THEN None ELSE x * scale

\* posture_data as PostureAnalyzer hands it over, from angles in degrees and
\* a distance in cm: the angles are held in 1/AngleScale degree, the distance
\* in 1/DistScale cm; NoPosture is Python None
Posture(y, p, sh, d) ==
    [present |-> TRUE,
     head_side_angle |-> InUnits(y, AngleScale),
     head_updown_angle |-> InUnits(p, AngleScale),
     shoulder_tilt |-> InUnits(sh, AngleScale),
     eye_distance_cm |-> InUnits(d, DistScale)]
NoPosture ==
    [present |-> FALSE, head_side_angle |-> None, head_updown_angle |-> None,
     shoulder_tilt |-> None, eye_distance_cm |-> None]
GoodPosture == Posture(5, 8, 3, 60)
HeadTurned == Posture(0 - 30, 8, 3, 60)
TooClose == Posture(5, 8, 3, 20)
DistanceLost == Posture(5, 8, 3, None)
\* what the frame loop hands to DrowsinessDetector.update: <<ear, posture_data>>
DrowsyInputs ==
    {<<None, NoPosture>>, <<10, NoPosture>>, <<40, NoPosture>>,
     <<None, GoodPosture>>, <<None, HeadTurned>>, <<None, TooClose>>,
     <<None, DistanceLost>>, <<10, TooClose>>}

\* what MediaPipe finds in the frame handed to PostureAnalyzer.analyze: no
\* frame, no pose, or a pose with the three angles _angle computes (degrees
\* in 0..180) and the inter-eye span in pixels
Pose(y, p, sh, px) ==
    [kind |-> "pose", yaw |-> y, pitch |-> p, shoulder_tilt |-> sh,
     eye_px |-> px]
NoFrame ==
    [kind |-> "no_frame", yaw |-> None, pitch |-> None,
     shoulder_tilt |-> None, eye_px |-> None]
NoPose ==
    [kind |-> "no_pose", yaw |-> None, pitch |-> None,
     shoulder_tilt |-> None, eye_px |-> None]
PoseInputs ==
    {NoFrame, NoPose,
     Pose(5, 8, 3, 60), Pose(175, 8, 3, 60), Pose(30, 8, 3, 90),
     Pose(5, 30, 3, 40), Pose(5, 8, 170, 200), Pose(5, 8, 3, 20)}

\* the angles _normalize_angle_to_zero is applied to: every half degree from
\* -180 to 180, in 1/AngleScale degree
NormalizeInputs ==
    {d * (AngleScale \div 2) : d \in (0 - 2 * StraightAngle)..(2 * StraightAngle)}

VARIABLES
    now,                 \* the value time.time() returned in the last call
    blink_count, closed_frames, blink_start, last_blink_ts, blink_end_time,
    counting_active, ear_buffer, yaw_queue, current_ear,
    blink_durations, blink_intervals, session_start_time,
    info,                \* the dict the last BlinkDetector.update returned
    bop,                 \* the last BlinkDetector operation
    run,                 \* observer: the closed-eye run seen so far
    prevBlinkAt,         \* observer: time of the last update that registered a blink
    scen,                \* observer: progress through the 30 fps scenario
    irregular,           \* number of irregular events so far
    \* DrowsinessDetector
    ear_buf, ear_low_start, ear_low_frames, posture_bad_start,
    gaze_off_start, gaze_last_seen, drowsy, drowsy_end_time,
    dinfo,               \* the dict the last DrowsinessDetector.update returned
    dop,                 \* the last DrowsinessDetector operation
    signals,             \* observer: the three condition values of the last update
    lowRun,              \* observer: updates in a row with smoothed EAR below the threshold
    zeroSince,           \* observer: time of the first update of the current
                         \* unbroken series of updates with no condition true
    cancelled,           \* observer: a condition came back while a release was pending
    badSince,            \* observer: time of the first update of the current unbroken
                         \* series of updates whose posture data meet the bad-posture
                         \* predicate
    lastIn, switches,    \* the previous input, and the number of changes so far
    \* PostureAnalyzer
    yaw_filter, pitch_filter, shoulder_filter, dist_filter,
    latest,              \* self._latest
    presult,             \* the dict the last PostureAnalyzer.analyze returned
    pin,                 \* the input of the last PostureAnalyzer.analyze
    \* _normalize_angle_to_zero applied to an angle, then to its result
    nz_in, nz_out, nz_n,
    \* construction of a detector from settings.json
    cfg,                 \* the keys present in the health_monitoring section
    built,               \* the outcome of the last constructor call
    \* the blink statistics on recorded data
    ap_durations, ap_intervals,  \* blink_durations, blink_intervals
    ap_count,            \* blink_count
    ap_elapsed,          \* time.time() - session_start_time at the call
    ap_out,              \* what the last statistics call returned
    \* one rolling buffer filled from empty
    bq_name,             \* which deque of the detectors it is
    bq,                  \* its contents
    bq_appended,         \* the number of append calls so far
    \* the capture thread and the processing loop
    et_latest,           \* EyeTracker._latest: the sample of the last frame read
    et_captured,         \* the number of frames the capture thread has read
    loop_pc,             \* where the processing loop is inside process_frame
    loop_iterations,     \* the number of process_frame calls so far
    fed,                 \* for each value in _ear_buffer, the frame it came from
    \* process_frame: the posture and drowsiness steps
    pf_in,               \* what MediaPipe finds in the frame of the last call
    posture_data,        \* the posture_data handed to DrowsinessDetector.update
    processed_frames,    \* the number of process_frame calls so far
    \* VisionManager
    is_running, vision_app,
    mgr_threads,         \* the vision threads started so far: where each is in
                         \* _vision_loop, and the application whose
                         \* process_frame it is inside
    mgr_starts,          \* the number of start() calls that passed the check
    \* the chatbot graph
    retries_limit,       \* build_graph's retries_limit
    cb_input,            \* the kind of message the graph was invoked with
    cb_node,             \* the node the graph runs next, END when it is done
    cb_path,             \* the nodes run so far, in order
    route, reformulated_question, analyzed_intent, sub_queries, retry_count,
    answer_valid,        \* the GraphState fields the nodes and edges use
    cb_read,             \* the sub_queries csv_node and retriever_node have read
    cb_rewrites          \* answer_valid and retry_count at each entry of rewriter

blinkVars == <<blink_count, closed_frames, blink_start, last_blink_ts,
               blink_end_time, counting_active, ear_buffer, yaw_queue,
               current_ear, blink_durations, blink_intervals,
               session_start_time, info, bop, run, prevBlinkAt, scen,
               irregular>>

drowsyVars == <<ear_buf, ear_low_start, ear_low_frames, posture_bad_start,
                gaze_off_start, gaze_last_seen, drowsy, drowsy_end_time,
                dinfo, dop, signals, lowRun, zeroSince, cancelled, badSince,
                lastIn, switches>>

postureVars == <<yaw_filter, pitch_filter, shoulder_filter, dist_filter,
                 latest, presult, pin>>

normVars == <<nz_in, nz_out, nz_n>>

constructVars == <<cfg, built>>

\* the state of the detectors and of the angle under study
coreVars == <<now, blinkVars, drowsyVars, postureVars, normVars>>

\* what no detector operation touches
statVars == <<ap_durations, ap_intervals, ap_count, ap_elapsed, ap_out>>

bufVars == <<bq_name, bq, bq_appended>>

captureVars == <<et_latest, et_captured, loop_pc, loop_iterations, fed>>

pipelineVars == <<pf_in, posture_data, processed_frames>>

\* the components added around the detectors
managerVars == <<is_running, vision_app, mgr_threads, mgr_starts>>

chatVars == <<retries_limit, cb_input, cb_node, cb_path, route,
              reformulated_question, analyzed_intent, sub_queries,
              retry_count, answer_valid, cb_read, cb_rewrites>>

extVars == <<pipelineVars, managerVars, chatVars>>

auxVars == <<constructVars, statVars, bufVars, captureVars, extVars>>

vars == <<coreVars, auxVars>>

\* ------------------------------------------------------------- helpers
Abs(x) == IF x < 0 THEN 0 - x ELSE x

RECURSIVE SumSeq(_)
SumSeq(s) == IF s = <<>> THEN 0 ELSE Head(s) + SumSeq(Tail(s))

\* deque.append that drops the new value when the deque is full
DequeAppendMut(q, x, cap) ==
    IF Len(q) >= cap THEN q ELSE Append(q, x)

\* deque(maxlen=cap).append(x): the oldest element is evicted when full
DequeAppend(q, x, cap) ==
    IF Len(q) >= cap THEN Append(Tail(q), x) ELSE Append(q, x)

\* sorted(buf)[len(buf) // 2]
MedianMut(buf) == buf[Len(buf)]
Median(buf) == SortSeq(buf, LAMBDA a, b: a < b)[(Len(buf) \div 2) + 1]

\* abs(sum(q) / len(q)) > limit, on exact rationals
AvgExceeds(q, limit) == Abs(SumSeq(q)) > limit * Len(q)

\* ------------------------------------------------ BlinkDetector._detect
\* _detect, steps 1 and 2 (input validation, de-bounce, head guards): which
\* return the frame takes, given the buffers as they are before the call
FrameKind(ear, pitch, yaw) ==
    IF ear = None THEN "no_ear_data"
    ELSE IF Len(DequeAppend(ear_buffer, ear, EarBufferCap)) < 3
         THEN "insufficient_data"
    ELSE IF pitch # None /\ Abs(pitch) > max_head_pitch
         THEN "head_pitch_exceeded"
    ELSE IF yaw # None
            /\ AvgExceeds(DequeAppend(yaw_queue, yaw, YawQueueCap), max_head_yaw)
         THEN "head_yaw_exceeded"
    ELSE IF Median(DequeAppend(ear_buffer, ear, EarBufferCap)) < ear_th
         THEN "closed"
    ELSE "open"

\* duration > self.max_blink_dur
BlinkTooLong(duration) == duration > max_blink_dur

\* self._closed_frames >= self.consecutive_frames and
\* blink_duration >= self.min_blink_gap
EpisodeValidMut(frames, blink_duration) ==
    frames > consecutive_frames /\ blink_duration >= min_blink_gap
EpisodeValid(frames, blink_duration) ==
    frames >= consecutive_frames /\ blink_duration >= min_blink_gap

\* time_since_last >= self.min_blink_gap
GapOk(time_since_last) == time_since_last >= min_blink_gap

\* self.blink_count += 1, on a valid blink only
BlinkCountAfterMut(blinked) == IF blinked THEN blink_count + 1 ELSE 0
BlinkCountAfter(blinked) == IF blinked THEN blink_count + 1 ELSE blink_count

\* _calculate_blink_rate() without the one-minute test
BlinkRateAtMut(count, session_duration) ==
    IF session_duration = 0 THEN 0
    ELSE (count * SessionMinute) \div session_duration

\* _calculate_blink_rate() in a session of the given age, in blinks per
\* minute rounded down: 0 until the session is one minute old
BlinkRateAt(count, session_duration) ==
    IF session_duration < SessionMinute THEN 0
    ELSE (count * SessionMinute) \div session_duration

\* _calculate_blink_rate() at time t
BlinkRate(count, t) == BlinkRateAt(count, t - session_start_time)

\* _calculate_avg_blink_duration() / _calculate_avg_blink_interval(): the
\* mean of a history in ticks, rounded down; 0 for an empty history
AvgSeq(q) == IF q = <<>> THEN 0 ELSE SumSeq(q) \div Len(q)

\* the keys update() adds to every dict _detect returns; the statistics are
\* computed after _detect, from the state it left
UpdateInfo(d, blinked, count, ear) ==
    [k \in DOMAIN d \cup {"frame", "blink_detected", "total_blinks", "ear",
                          "blink_rate_per_minute", "avg_blink_duration",
                          "avg_blink_interval"} |->
        IF k = "frame" THEN "frame"
        ELSE IF k = "blink_detected" THEN blinked
        ELSE IF k = "total_blinks" THEN count
        ELSE IF k = "ear" THEN ear
        ELSE IF k = "blink_rate_per_minute" THEN BlinkRate(count, now')
        ELSE IF k = "avg_blink_duration" THEN AvgSeq(blink_durations')
        ELSE IF k = "avg_blink_interval" THEN AvgSeq(blink_intervals')
        ELSE d[k]]

EarlyInfo(reason) == [r \in {"reason"} |-> reason]

\* _reset_state()
ResetStateMut ==
    /\ counting_active' = counting_active
    /\ closed_frames' = closed_frames
    /\ ear_buffer' = <<>>
    /\ yaw_queue' = <<>>
ResetState ==
    /\ counting_active' = FALSE
    /\ closed_frames' = 0
    /\ ear_buffer' = <<>>
    /\ yaw_queue' = <<>>

\* step 4 of _detect: the full result dict, built from the state after step 3
FullInfo(reason, filtered, ear, closed, active, frames, start, last, t) ==
    [reason |-> reason,
     ear_filtered |-> filtered,
     ear_original |-> ear,
     eye_closed |-> closed,
     closed_frames |-> IF active THEN frames ELSE 0,
     blink_duration |-> IF active THEN t - start ELSE 0,
     time_since_last_blink |-> IF last > 0 THEN t - last ELSE None]

\* _detect(ear, contrast, pitch, yaw) at time.time() = t, then the rest of
\* update(): the whole handler
Detect(ear, pitch, yaw, t) ==
    \E kind \in {FrameKind(ear, pitch, yaw)},
       buf \in {DequeAppend(ear_buffer, ear, EarBufferCap)} :
    \E filtered \in {Median(buf)} :
    LET yq == IF yaw # None THEN DequeAppend(yaw_queue, yaw, YawQueueCap)
              ELSE yaw_queue
        keepStats == UNCHANGED <<blink_count, last_blink_ts, blink_end_time,
                                 blink_durations, blink_intervals>>
    IN
    CASE kind = "no_ear_data" ->
            /\ ResetState
            /\ keepStats
            /\ UNCHANGED <<blink_start, current_ear>>
            /\ info' = UpdateInfo(EarlyInfo(kind), FALSE, blink_count, ear)
      [] kind = "insufficient_data" ->
            /\ ear_buffer' = buf
            /\ keepStats
            /\ UNCHANGED <<counting_active, closed_frames, blink_start,
                           yaw_queue, current_ear>>
            /\ info' = UpdateInfo(EarlyInfo(kind), FALSE, blink_count, ear)
      [] kind \in {"head_pitch_exceeded", "head_yaw_exceeded"} ->
            /\ current_ear' = filtered
            /\ ResetState
            /\ keepStats
            /\ UNCHANGED blink_start
            /\ info' = UpdateInfo(EarlyInfo(kind), FALSE, blink_count, ear)
      [] kind = "closed" /\ ~counting_active ->
            \* a new blink starts
            /\ current_ear' = filtered
            /\ ear_buffer' = buf
            /\ yaw_queue' = yq
            /\ counting_active' = TRUE
            /\ blink_start' = t
            /\ closed_frames' = 1
            /\ keepStats
            /\ info' = UpdateInfo(
                 FullInfo("None", filtered, ear, TRUE, TRUE, 1, t,
                          last_blink_ts, t),
                 FALSE, blink_count, ear)
      [] kind = "closed" /\ counting_active /\ BlinkTooLong(t - blink_start) ->
            /\ current_ear' = filtered
            /\ ResetState
            /\ keepStats
            /\ UNCHANGED blink_start
            /\ info' = UpdateInfo(EarlyInfo("blink_too_long"), FALSE,
                                  blink_count, ear)
      [] kind = "closed" /\ counting_active /\ ~BlinkTooLong(t - blink_start) ->
            /\ current_ear' = filtered
            /\ ear_buffer' = buf
            /\ yaw_queue' = yq
            /\ closed_frames' = closed_frames + 1
            /\ keepStats
            /\ UNCHANGED <<counting_active, blink_start>>
            /\ info' = UpdateInfo(
                 FullInfo("None", filtered, ear, TRUE, TRUE,
                          closed_frames + 1, blink_start, last_blink_ts, t),
                 FALSE, blink_count, ear)
      [] kind = "open" /\ counting_active ->
            \* a blink ends
            \E blink_duration \in {t - blink_start},
               time_since_last \in {t - last_blink_ts} :
            \E valid \in {EpisodeValid(closed_frames, blink_duration)} :
            \E blinked \in {valid /\ GapOk(time_since_last)} :
            LET reason == IF blinked THEN "valid_blink"
                          ELSE IF valid THEN "too_soon_after_previous"
                          ELSE "None"
            IN
            /\ current_ear' = filtered
            /\ ear_buffer' = buf
            /\ yaw_queue' = yq
            /\ counting_active' = FALSE
            /\ closed_frames' = 0
            /\ UNCHANGED blink_start
            /\ blink_count' = BlinkCountAfter(blinked)
            /\ last_blink_ts' = IF blinked THEN t ELSE last_blink_ts
            /\ blink_end_time' = IF blinked THEN t ELSE blink_end_time
            /\ blink_durations' =
                 IF blinked
                 THEN DequeAppend(blink_durations, blink_duration, HistoryCap)
                 ELSE blink_durations
            \* _last_blink_ts was set to now two lines above the test
            \* "if self._last_blink_ts > 0"
            /\ blink_intervals' =
                 IF blinked /\ t > 0
                 THEN DequeAppend(blink_intervals, time_since_last, HistoryCap)
                 ELSE blink_intervals
            /\ info' = UpdateInfo(
                 FullInfo(reason, filtered, ear, FALSE, FALSE, 0, blink_start,
                          IF blinked THEN t ELSE last_blink_ts, t),
                 blinked, BlinkCountAfter(blinked), ear)
      [] kind = "open" /\ ~counting_active ->
            /\ current_ear' = filtered
            /\ ear_buffer' = buf
            /\ yaw_queue' = yq
            /\ keepStats
            /\ UNCHANGED <<counting_active, closed_frames, blink_start>>
            /\ info' = UpdateInfo(
                 FullInfo("None", filtered, ear, FALSE, FALSE, 0, blink_start,
                          last_blink_ts, t),
                 FALSE, blink_count, ear)

\* ------------------------------------------------------------ observers
\* The closed-eye run as an outside observer of the filtered signal sees it:
\* len closed frames in a row so far, the first at time start; over: some
\* frame of the run after the first came more than max_blink_dur after it.
NoRun == [len |-> 0, start |-> None, over |-> FALSE]

RunAfter(kind, t) ==
    IF kind = "closed"
    THEN IF run.len = 0
         THEN [len |-> 1, start |-> t, over |-> FALSE]
         ELSE [len |-> run.len + 1, start |-> run.start,
               over |-> run.over \/ t - run.start > max_blink_dur]
    ELSE NoRun

\* The 30 fps scenario: EAR samples one per update, 2 ticks (1/30 s) apart,
\* on a freshly constructed detector.  scen is the number of samples of it
\* fed so far, None once the calls made differ from it.
Scenario == <<30, 30, 15, 15, 15, 15, 30, 30, 30>>

ScenAfter(ear, kind, dt) ==
    IF /\ scen # None
       /\ scen < Len(Scenario)
       /\ ear = Scenario[scen + 1]
       /\ (scen = 0 \/ dt = FramePeriod)
       /\ kind \notin {"head_pitch_exceeded", "head_yaw_exceeded"}
    THEN scen + 1
    ELSE None

\* ----------------------------------------------------------------- Init
\* BlinkDetector.__init__
InitBlink ==
    /\ now = Epoch
    /\ blink_count = 0
    /\ closed_frames = 0
    /\ blink_start = 0
    /\ last_blink_ts = 0
    /\ blink_end_time = 0
    /\ blink_durations = <<>>
    /\ blink_intervals = <<>>
    /\ session_start_time = Epoch
    /\ yaw_queue = <<>>
    /\ counting_active = FALSE
    /\ current_ear = None
    /\ ear_buffer = <<>>
    /\ info = [r \in {} |-> None]
    /\ bop = "init"
    /\ run = NoRun
    /\ prevBlinkAt = None
    /\ scen = 0
    /\ irregular = 0

\* -------------------------------------------------------------- actions
\* BlinkDetector.update(): one frame of the eye tracker, dt ticks after the
\* previous call
BlinkUpdate ==
    \E s \in Samples, dt \in {FramePeriod, MaxDt} :
        /\ now + dt <= Epoch + BlinkHorizon
        /\ s \in IrregularSamples => irregular < MaxIrregular
        /\ now' = now + dt
        /\ Detect(s.ear, s.pitch, s.yaw, now + dt)
        /\ bop' = "update"
        /\ \E kind \in {FrameKind(s.ear, s.pitch, s.yaw)} :
              /\ run' = RunAfter(kind, now + dt)
              /\ scen' = ScenAfter(s.ear, kind, dt)
        /\ prevBlinkAt' = IF info'.blink_detected THEN now + dt ELSE prevBlinkAt
        /\ irregular' = IF s \in IrregularSamples THEN irregular + 1
                         ELSE irregular
        /\ UNCHANGED session_start_time
        /\ UNCHANGED <<drowsyVars, postureVars, normVars, auxVars>>

\* BlinkDetector.reset_statistics()
BlinkResetStatistics ==
    /\ irregular < MaxIrregular
    /\ blink_count' = 0
    /\ session_start_time' = now
    /\ last_blink_ts' = 0
    /\ blink_durations' = <<>>
    /\ blink_intervals' = <<>>
    /\ bop' = "reset_statistics"
    /\ scen' = None
    /\ irregular' = irregular + 1
    /\ UNCHANGED <<now, closed_frames, blink_start, blink_end_time,
                   counting_active, ear_buffer, yaw_queue, current_ear, info,
                   run, prevBlinkAt>>
    /\ UNCHANGED <<drowsyVars, postureVars, normVars, auxVars>>

NextBlink == BlinkUpdate \/ BlinkResetStatistics

\* ------------------------------------------- DrowsinessDetector helpers
\* np.linspace(0.5, 1.0, n)[i-1], scaled by 2(n-1): the weights grow linearly
\* from 0.5 (oldest) to 1.0 (newest)
Weight(n, i) == (n - 1) + (i - 1)

RECURSIVE WeightedSum(_, _)
WeightedSum(buf, i) ==
    IF i > Len(buf) THEN 0
    ELSE Weight(Len(buf), i) * buf[i] + WeightedSum(buf, i + 1)

RECURSIVE WeightTotal(_, _)
WeightTotal(n, i) ==
    IF i > n THEN 0 ELSE Weight(n, i) + WeightTotal(n, i + 1)

\* _filter_ear(val, buf) < limit, where buf already holds val: the weighted
\* average of the buffer (val itself for a buffer of one) against the limit,
\* on exact rationals
FilteredBelow(buf, limit) ==
    IF Len(buf) < 2 THEN buf[Len(buf)] < limit
    ELSE WeightedSum(buf, 1) < limit * WeightTotal(Len(buf), 1)

\* info["ear_duration"] >= self.ear_duration_th
EarLongEnough(dur) == dur >= ear_duration_th

\* self._ear_low_start is None and
\* self._ear_low_frames >= self.EAR_CONSEC_FRAMES
EarTimerStartsMut(start, frames) ==
    start = None /\ frames >= EAR_CONSEC_FRAMES - 1
EarTimerStarts(start, frames) == start = None /\ frames >= EAR_CONSEC_FRAMES

\* _analyze_ear(ear, now, info): the new buffer, timer and counter, the
\* duration written to info and the value returned
AnalyzeEarMut(ear, t) ==
    IF ear = None
    THEN [buf |-> ear_buf, start |-> None, frames |-> 0, dur |-> 0,
          low |-> FALSE, ret |-> FALSE]
    ELSE LET buf == DequeAppend(ear_buf, ear, DrowsyEarBufCap)
             ear_low_now == FilteredBelow(buf, drowsy_ear_th)
             frames == ear_low_frames + 1
             start == IF EarTimerStarts(ear_low_start, frames) THEN t
                      ELSE ear_low_start
         IN IF ear_low_now
            THEN IF start # None
                 THEN [buf |-> buf, start |-> start, frames |-> frames,
                       dur |-> t - start, low |-> TRUE,
                       ret |-> EarLongEnough(t - start)]
                 ELSE [buf |-> buf, start |-> start, frames |-> frames,
                       dur |-> 0, low |-> TRUE, ret |-> FALSE]
            ELSE [buf |-> buf, start |-> ear_low_start, frames |-> 0,
                  dur |-> 0, low |-> FALSE, ret |-> FALSE]
AnalyzeEar(ear, t) ==
    IF ear = None
    THEN [buf |-> ear_buf, start |-> None, frames |-> 0, dur |-> 0,
          low |-> FALSE, ret |-> FALSE]
    ELSE LET buf == DequeAppend(ear_buf, ear, DrowsyEarBufCap)
             ear_low_now == FilteredBelow(buf, drowsy_ear_th)
             frames == ear_low_frames + 1
             start == IF EarTimerStarts(ear_low_start, frames) THEN t
                      ELSE ear_low_start
         IN IF ear_low_now
            THEN IF start # None
                 THEN [buf |-> buf, start |-> start, frames |-> frames,
                       dur |-> t - start, low |-> TRUE,
                       ret |-> EarLongEnough(t - start)]
                 ELSE [buf |-> buf, start |-> start, frames |-> frames,
                       dur |-> 0, low |-> TRUE, ret |-> FALSE]
            ELSE [buf |-> buf, start |-> None, frames |-> 0, dur |-> 0,
                  low |-> FALSE, ret |-> FALSE]

\* the posture_bad flag of _analyze_posture
PostureBad(p) ==
    \/ /\ p.head_side_angle # None
       /\ Abs(p.head_side_angle) > max_head_yaw * AngleScale
    \/ /\ p.head_updown_angle # None
       /\ Abs(p.head_updown_angle) > max_head_pitch * AngleScale
    \/ /\ p.shoulder_tilt # None
       /\ Abs(p.shoulder_tilt) > max_shoulder_tilt * AngleScale
    \/ /\ p.eye_distance_cm # None
       /\ (p.eye_distance_cm < min_gaze_distance_cm * DistScale
           \/ p.eye_distance_cm > max_gaze_distance_cm * DistScale)

\* _analyze_posture(posture_data, now, info)
AnalyzePostureMut(p, t) ==
    IF ~p.present
    THEN [start |-> posture_bad_start, dur |-> 0, ret |-> FALSE]
    ELSE IF PostureBad(p)
    THEN LET start == IF posture_bad_start = None THEN t
                      ELSE posture_bad_start
         IN [start |-> start, dur |-> t - start,
             ret |-> t - start >= posture_window_sec]
    ELSE [start |-> None, dur |-> 0, ret |-> FALSE]
AnalyzePosture(p, t) ==
    IF ~p.present
    THEN [start |-> None, dur |-> 0, ret |-> FALSE]
    ELSE IF PostureBad(p)
    THEN LET start == IF posture_bad_start = None THEN t
                      ELSE posture_bad_start
         IN [start |-> start, dur |-> t - start,
             ret |-> t - start >= posture_window_sec]
    ELSE [start |-> None, dur |-> 0, ret |-> FALSE]

\* _analyze_gaze_off(posture_data, now, info)
AnalyzeGazeOffMut(p, t) ==
    LET dist_cm == p.eye_distance_cm
    IN
    IF ~p.present
    THEN [start |-> gaze_off_start, dur |-> 0, ret |-> FALSE]
    ELSE IF dist_cm = None
    THEN IF gaze_off_start # None /\ t - gaze_off_start > MAX_MISSING_DIST_SEC
         THEN [start |-> None, dur |-> 0, ret |-> FALSE]
         ELSE [start |-> gaze_off_start, dur |-> 0, ret |-> FALSE]
    ELSE IF dist_cm < min_gaze_distance_cm * DistScale
    THEN LET start == IF gaze_off_start = None THEN t ELSE gaze_off_start
         IN [start |-> start, dur |-> t - start,
             ret |-> t - start >= gaze_off_threshold_sec]
    ELSE [start |-> gaze_off_start, dur |-> 0, ret |-> FALSE]
AnalyzeGazeOff(p, t) ==
    LET dist_cm == p.eye_distance_cm
    IN
    IF ~p.present
    THEN [start |-> gaze_off_start, dur |-> 0, ret |-> FALSE]
    ELSE IF dist_cm = None
    THEN IF gaze_off_start # None /\ t - gaze_off_start > MAX_MISSING_DIST_SEC
         THEN [start |-> None, dur |-> 0, ret |-> FALSE]
         ELSE [start |-> gaze_off_start, dur |-> 0, ret |-> FALSE]
    ELSE IF dist_cm < min_gaze_distance_cm * DistScale
    THEN LET start == IF gaze_off_start = None THEN t ELSE gaze_off_start
         IN [start |-> start, dur |-> t - start,
             ret |-> t - start >= gaze_off_threshold_sec]
    ELSE [start |-> None, dur |-> 0, ret |-> FALSE]

\* now - self._drowsy_end_time >= self.DROWSY_RELEASE_SEC
ReleaseDueMut(elapsed) == elapsed >= DROWSY_RELEASE_SEC \div 2
ReleaseDue(elapsed) == elapsed >= DROWSY_RELEASE_SEC

\* _get_drowsiness_reason(drowsy_signals)
DrowsinessReason(n) ==
    IF n = 3 THEN "All Signals"
    ELSE IF n = 2 THEN "Combined Signals"
    ELSE "Unknown"

\* _update_drowsy_state(drowsy_signals, now, info): the new state, the new
\* release time stamp and the reason written to info
UpdateDrowsyStateMut2(n, t) ==
    IF n >= 2
    THEN [drowsy |-> TRUE, end |-> None, reason |-> DrowsinessReason(n)]
    ELSE LET end1 == IF drowsy /\ drowsy_end_time = None THEN t
                     ELSE drowsy_end_time
         IN IF end1 # None /\ end1 # 0 /\ ReleaseDue(t - end1)
            THEN [drowsy |-> FALSE, end |-> None, reason |-> "None"]
            ELSE [drowsy |-> drowsy, end |-> end1, reason |-> "None"]
UpdateDrowsyStateMut(n, t) ==
    IF n >= 1
    THEN [drowsy |-> TRUE, end |-> drowsy_end_time,
          reason |-> DrowsinessReason(n)]
    ELSE LET end1 == IF drowsy /\ drowsy_end_time = None THEN t
                     ELSE drowsy_end_time
         IN IF end1 # None /\ end1 # 0 /\ ReleaseDue(t - end1)
            THEN [drowsy |-> FALSE, end |-> None, reason |-> "None"]
            ELSE [drowsy |-> drowsy, end |-> end1, reason |-> "None"]
UpdateDrowsyState(n, t) ==
    IF n >= 1
    THEN [drowsy |-> TRUE, end |-> None, reason |-> DrowsinessReason(n)]
    ELSE LET end1 == IF drowsy /\ drowsy_end_time = None THEN t
                     ELSE drowsy_end_time
         IN IF end1 # None /\ end1 # 0 /\ ReleaseDue(t - end1)
            THEN [drowsy |-> FALSE, end |-> None, reason |-> "None"]
            ELSE [drowsy |-> drowsy, end |-> end1, reason |-> "None"]

BoolToInt(b) == IF b THEN 1 ELSE 0

\* observer: the bad-posture predicate on the posture data of one update:
\* |yaw| > yaw limit or |pitch| > pitch limit or |shoulder tilt| > tilt limit
\* or distance outside [min, max]; an absent value exceeds nothing
BadPosturePredicate(p) ==
    /\ p.present
    /\ \/ (p.head_side_angle # None
             /\ Abs(p.head_side_angle) > max_head_yaw * AngleScale)
       \/ (p.head_updown_angle # None
             /\ Abs(p.head_updown_angle) > max_head_pitch * AngleScale)
       \/ (p.shoulder_tilt # None
             /\ Abs(p.shoulder_tilt) > max_shoulder_tilt * AngleScale)
       \/ (p.eye_distance_cm # None
             /\ ~(min_gaze_distance_cm * DistScale <= p.eye_distance_cm
                  /\ p.eye_distance_cm <= max_gaze_distance_cm * DistScale))

\* DrowsinessDetector.__init__
InitDrowsy ==
    /\ ear_buf = <<>>
    /\ ear_low_start = None
    /\ ear_low_frames = 0
    /\ posture_bad_start = None
    /\ gaze_off_start = None
    /\ gaze_last_seen = None
    /\ drowsy = FALSE
    /\ drowsy_end_time = None
    /\ dinfo = [r \in {} |-> None]
    /\ dop = "init"
    /\ signals = <<FALSE, FALSE, FALSE>>
    /\ lowRun = 0
    /\ zeroSince = None
    /\ cancelled = FALSE
    /\ badSince = None
    /\ lastIn = <<>>
    /\ switches = 0

\* DrowsinessDetector.update(ear, posture_data), the clock reading t
DrowsyUpdateAt(ear, p, t) ==
    \E e \in {AnalyzeEar(ear, t)}, po \in {AnalyzePosture(p, t)},
       g \in {AnalyzeGazeOff(p, t)} :
    \E n \in {BoolToInt(e.ret) + BoolToInt(po.ret) + BoolToInt(g.ret)} :
    \E st \in {UpdateDrowsyState(n, t)} :
    /\ now' = t
    /\ ear_buf' = e.buf
    /\ ear_low_start' = e.start
    /\ ear_low_frames' = e.frames
    /\ posture_bad_start' = po.start
    /\ gaze_off_start' = g.start
    /\ drowsy' = st.drowsy
    /\ drowsy_end_time' = st.end
    /\ dinfo' = [drowsiness_detected |-> st.drowsy,
                 reason |-> st.reason,
                 ear_duration |-> e.dur,
                 posture_bad_duration |-> po.dur,
                 gaze_off_duration |-> g.dur]
    /\ dop' = "update"
    /\ signals' = <<e.ret, po.ret, g.ret>>
    /\ lowRun' = IF e.low THEN lowRun + 1 ELSE 0
    /\ zeroSince' = IF n >= 1 THEN None
                    ELSE IF zeroSince = None THEN t ELSE zeroSince
    /\ cancelled' = (cancelled \/ (n >= 1 /\ drowsy /\ zeroSince # None))
    /\ badSince' = IF BadPosturePredicate(p)
                   THEN (IF badSince = None THEN t ELSE badSince)
                   ELSE None
    /\ UNCHANGED gaze_last_seen

DrowsyUpdate ==
    \E in \in DrowsyInputs, dt \in {DrowsyDt, LateFrames * DrowsyDt} :
        /\ now + dt <= Epoch + DrowsyHorizon
        /\ (lastIn # <<>> /\ in # lastIn) => switches < MaxSwitches
        /\ DrowsyUpdateAt(in[1], in[2], now + dt)
        /\ UNCHANGED <<blinkVars, postureVars, normVars, auxVars>>
        /\ lastIn' = in
        /\ switches' = IF lastIn # <<>> /\ in # lastIn THEN switches + 1
                        ELSE switches

\* DrowsinessDetector.reset() that leaves the EAR buffer and the pending
\* release as they are
DrowsyResetMut ==
    /\ switches < MaxSwitches
    /\ ear_low_start' = None
    /\ ear_low_frames' = 0
    /\ posture_bad_start' = None
    /\ gaze_off_start' = None
    /\ gaze_last_seen' = None
    /\ drowsy' = FALSE
    /\ dop' = "reset"
    /\ lowRun' = 0
    /\ zeroSince' = None
    /\ cancelled' = FALSE
    /\ badSince' = None
    /\ switches' = switches + 1
    /\ UNCHANGED <<ear_buf, drowsy_end_time, dinfo, signals, lastIn>>
    /\ UNCHANGED <<now, blinkVars, postureVars, normVars, auxVars>>

\* DrowsinessDetector.reset()
DrowsyReset ==
    /\ switches < MaxSwitches
    /\ ear_buf' = <<>>
    /\ ear_low_start' = None
    /\ ear_low_frames' = 0
    /\ posture_bad_start' = None
    /\ gaze_off_start' = None
    /\ gaze_last_seen' = None
    /\ drowsy' = FALSE
    /\ drowsy_end_time' = None
    /\ dop' = "reset"
    /\ lowRun' = 0
    /\ zeroSince' = None
    /\ cancelled' = FALSE
    /\ badSince' = None
    /\ switches' = switches + 1
    /\ UNCHANGED <<dinfo, signals, lastIn>>
    /\ UNCHANGED <<now, blinkVars, postureVars, normVars, auxVars>>

NextDrowsy == DrowsyUpdate \/ DrowsyReset

\* ----------------------------------------------------- PostureAnalyzer
\* np.clip(x, lo, hi)
Clip(x, lo, hi) == IF x < lo THEN lo ELSE IF x > hi THEN hi ELSE x

\* the distance estimated from the inter-eye span, left as computed
EstimateDistanceMut(eye_px) ==
    IF eye_px >= min_eye_px THEN (avg_eye_cm * focal) \div eye_px ELSE None

\* the distance estimated from the inter-eye span: None below the minimum
\* span, else (avg_eye_cm * focal) / eye_px clipped to the reasonable range
\* (the inputs divide avg_eye_cm * focal exactly)
EstimateDistance(eye_px) ==
    IF eye_px >= min_eye_px
    THEN Clip((avg_eye_cm * focal) \div eye_px,
              min_gaze_distance_cm, max_gaze_distance_cm)
    ELSE None

\* np.mean(q), in 1/scale units
MeanScaled(q, scale) == (SumSeq(q) * scale) \div Len(q)

\* _normalize_angle_to_zero(angle), angle in 1/AngleScale degree
NormalizeAngleMut(angle) ==
    IF angle > RightAngle * AngleScale
    THEN angle - RightAngle * AngleScale
    ELSE IF angle < 0 - RightAngle * AngleScale
    THEN angle + RightAngle * AngleScale
    ELSE angle
NormalizeAngleToZero(angle) ==
    IF 0 - RightAngle * AngleScale <= angle /\ angle <= RightAngle * AngleScale
    THEN angle
    ELSE IF angle > RightAngle * AngleScale
    THEN angle - StraightAngle * AngleScale
    ELSE angle + StraightAngle * AngleScale

\* _classify_normalized(yaw, pitch, shoulder, dist): angles in 1/AngleScale
\* degree, dist in 1/DistScale cm or None
ClassifyNormalizedMut(yaw, pitch, shoulder, dist) ==
    IF yaw = None \/ pitch = None \/ shoulder = None THEN "unknown"
    ELSE IF Abs(yaw) > max_head_yaw * AngleScale THEN "poor"
    ELSE IF Abs(pitch) > max_head_pitch * AngleScale THEN "poor"
    ELSE IF dist # None /\ (dist < min_gaze_distance_cm * DistScale
                            \/ dist > max_gaze_distance_cm * DistScale)
    THEN "poor"
    ELSE "good"
ClassifyNormalized(yaw, pitch, shoulder, dist) ==
    IF yaw = None \/ pitch = None \/ shoulder = None THEN "unknown"
    ELSE IF Abs(yaw) > max_head_yaw * AngleScale THEN "poor"
    ELSE IF Abs(pitch) > max_head_pitch * AngleScale THEN "poor"
    ELSE IF Abs(shoulder) > max_shoulder_tilt * AngleScale THEN "poor"
    ELSE IF dist # None /\ (dist < min_gaze_distance_cm * DistScale
                            \/ dist > max_gaze_distance_cm * DistScale)
    THEN "poor"
    ELSE "good"

\* _empty_result()
EmptyResultMut ==
    [timestamp |-> now, head_side_angle |-> None, head_updown_angle |-> None,
     shoulder_tilt |-> None, eye_distance_cm |-> None, status |-> "good"]
EmptyResult ==
    [timestamp |-> now, head_side_angle |-> None, head_updown_angle |-> None,
     shoulder_tilt |-> None, eye_distance_cm |-> None, status |-> "unknown"]

\* PostureAnalyzer.__init__
InitPosture ==
    /\ yaw_filter = <<>>
    /\ pitch_filter = <<>>
    /\ shoulder_filter = <<>>
    /\ dist_filter = <<>>
    /\ latest = [r \in {} |-> None]
    /\ presult = [r \in {} |-> None]
    /\ pin = NoFrame

\* min_angle(a) of AEyePro/vision/posture_analyzer.py _classify: the smaller
\* of |a| and |180 - |a||, a in 1/AngleScale degree
MinAngle(a) ==
    IF Abs(a) <= Abs(StraightAngle * AngleScale - Abs(a)) THEN Abs(a)
    ELSE Abs(StraightAngle * AngleScale - Abs(a))

\* _classify(yaw, pitch, shoulder, dist) of AEyePro/vision/posture_analyzer.py
Classify(yaw, pitch, shoulder, dist) ==
    IF MinAngle(yaw) > max_head_yaw * AngleScale THEN "poor"
    ELSE IF MinAngle(pitch) > max_head_pitch * AngleScale THEN "poor"
    ELSE IF MinAngle(shoulder) > max_shoulder_tilt * AngleScale THEN "poor"
    ELSE IF dist # None /\ (dist < min_gaze_distance_cm * DistScale
                            \/ dist > max_gaze_distance_cm * DistScale)
    THEN "poor"
    ELSE "good"

\* the angle analyze reports for a smoothed angle: vision/posture_analyzer.py
\* normalizes it, AEyePro/vision/posture_analyzer.py reports it as it is
ReportedAngle(mean, module) ==
    IF module = "vision" THEN NormalizeAngleToZero(mean) ELSE mean

\* the status analyze reports for the reported values
ReportedStatus(yaw, pitch, shoulder, dist, module) ==
    IF module = "vision" THEN ClassifyNormalized(yaw, pitch, shoulder, dist)
    ELSE Classify(yaw, pitch, shoulder, dist)

\* analyze(frame) of the PostureAnalyzer of the given module, on what
\* MediaPipe finds in the frame; the clock is read for the time stamp only
PostureAnalyzeStep(pose, module) ==
    /\ pin' = pose
    /\ IF pose.kind # "pose"
       THEN /\ presult' = EmptyResult
            /\ UNCHANGED <<yaw_filter, pitch_filter, shoulder_filter,
                           dist_filter, latest>>
       ELSE \E distance_cm \in {EstimateDistance(pose.eye_px)} :
            \E yf \in {DequeAppend(yaw_filter, pose.yaw, AngleFilterCap)},
               pf \in {DequeAppend(pitch_filter, pose.pitch, AngleFilterCap)},
               sf \in {DequeAppend(shoulder_filter, pose.shoulder_tilt,
                                   AngleFilterCap)},
               df \in {IF distance_cm # None
                       THEN DequeAppend(dist_filter, distance_cm,
                                        DistFilterCap)
                       ELSE dist_filter} :
            \E yaw_normalized \in
                   {ReportedAngle(MeanScaled(yf, AngleScale), module)},
               pitch_normalized \in
                   {ReportedAngle(MeanScaled(pf, AngleScale), module)},
               shoulder_normalized \in
                   {ReportedAngle(MeanScaled(sf, AngleScale), module)},
               dist_f \in {IF df # <<>> THEN MeanScaled(df, DistScale)
                           ELSE None} :
            /\ yaw_filter' = yf
            /\ pitch_filter' = pf
            /\ shoulder_filter' = sf
            /\ dist_filter' = df
            /\ latest' =
                 [timestamp |-> now,
                  head_side_angle |-> yaw_normalized,
                  head_updown_angle |-> pitch_normalized,
                  shoulder_tilt |-> shoulder_normalized,
                  eye_distance_cm |-> dist_f,
                  status |-> ReportedStatus(
                      yaw_normalized, pitch_normalized,
                      shoulder_normalized, dist_f, module)]
            /\ presult' = latest'

\* PostureAnalyzer.analyze(frame) of vision/posture_analyzer.py
PostureAnalyze ==
    \E pose \in PoseInputs :
        /\ PostureAnalyzeStep(pose, "vision")
        /\ UNCHANGED <<now, blinkVars, drowsyVars, normVars, auxVars>>

NextPosture == PostureAnalyze

\* PostureAnalyzer.analyze(frame) of AEyePro/vision/posture_analyzer.py
PostureAnalyzeAEyePro ==
    \E pose \in PoseInputs :
        /\ PostureAnalyzeStep(pose, "AEyePro")
        /\ UNCHANGED <<now, blinkVars, drowsyVars, normVars, auxVars>>

NextPostureAEyePro == PostureAnalyzeAEyePro

\* ---------------------------------------- _normalize_angle_to_zero alone
\* no angle under study
InitNormalizeIdle == nz_in = 0 /\ nz_out = 0 /\ nz_n = 0

\* an angle of NormalizeInputs under study, not yet normalized
InitNormalizeInputs == nz_in \in NormalizeInputs /\ nz_out = nz_in /\ nz_n = 0

\* one more application of _normalize_angle_to_zero to the angle under study
NormalizeApply ==
    /\ nz_n < NormalizeSteps
    /\ nz_out' = NormalizeAngleToZero(nz_out)
    /\ nz_n' = nz_n + 1
    /\ UNCHANGED <<nz_in, now, blinkVars, drowsyVars, postureVars, auxVars>>

NextNormalize == NormalizeApply

\* ------------------------------------------ construction from settings.json
\* the keys BlinkDetector.__init__ indexes in the health_monitoring section
BlinkKeys ==
    {"consecutive_frames", "BLINK_THRESHOLD", "max_blink_duration",
     "min_blink_interval", "max_head_side_angle", "max_head_updown_angle"}

\* the keys DrowsinessDetector.__init__ indexes, and the ones it reads with
\* health_cfg.get(key, default)
DrowsyIndexedKeys ==
    {"DROWSY_THRESHOLD", "max_head_updown_angle", "max_head_side_angle",
     "max_shoulder_tilt", "MIN_REASONABLE_DISTANCE", "MAX_REASONABLE_DISTANCE"}

DrowsyDefaultedKeys == {"drowsy_ear_duration"}

\* a key of the section that no detector threshold comes from
OtherKeys == {"camera_index"}

ConfigKeys == BlinkKeys \cup DrowsyIndexedKeys \cup DrowsyDefaultedKeys \cup OtherKeys

\* the complete settings.json, no constructor called yet
InitConstructIdle == cfg = ConfigKeys /\ built = <<>>

\* a settings.json with any of the keys missing
InitConstructInputs == cfg \in SUBSET ConfigKeys /\ built = <<>>

\* BlinkDetector(config): health_cfg[key] raises KeyError on the first
\* missing key
ConstructBlinkDetector ==
    /\ built' = [class |-> "BlinkDetector",
                 outcome |-> IF BlinkKeys \subseteq cfg THEN "created"
                             ELSE "KeyError",
                 defaulted |-> {}]
    /\ UNCHANGED <<cfg, coreVars, statVars, bufVars, captureVars,
                   extVars>>

\* DrowsinessDetector(config): ValueError on an empty section, KeyError on
\* a missing indexed key, the default 2.0 s for a missing drowsy_ear_duration
ConstructDrowsinessDetector ==
    /\ built' = [class |-> "DrowsinessDetector",
                 outcome |-> IF cfg = {} THEN "ValueError"
                             ELSE IF DrowsyIndexedKeys \subseteq cfg
                                  THEN "created"
                                  ELSE "KeyError",
                 defaulted |-> IF cfg # {} /\ DrowsyIndexedKeys \subseteq cfg
                               THEN DrowsyDefaultedKeys \ cfg
                               ELSE {}]
    /\ UNCHANGED <<cfg, coreVars, statVars, bufVars, captureVars,
                   extVars>>

NextConstruct == ConstructBlinkDetector \/ ConstructDrowsinessDetector

\* ------------------------------------------- statistics on recorded data
\* a history of n blink durations: k of 0.5 s first, then 0.4 s and 0.1 s
\* in turn
DurationsOf(n, k) ==
    [i \in 1..n |-> IF i <= k THEN SlowBlinkTicks + 6
                    ELSE IF i % 2 = 1 THEN SlowBlinkTicks ELSE 6]

PatternDurations ==
    {DurationsOf(n, k) : n \in (MinPatternSamples - 2)..MaxPatternSamples,
                         k \in 0..MaxPatternSamples}

\* histories of inter-blink intervals: too few to judge, even, uneven, all
\* zero, and one just under a variation of 0.5
PatternIntervals ==
    {<<>>, <<6, 6, 6, 300>>, <<60, 60, 60, 60, 60>>, <<6, 6, 6, 6, 300>>,
     <<0, 0, 0, 0, 0>>, <<30, 60, 60, 60, 90, 60>>}

RateCounts == {0, 1, FrequentRate, FrequentRate + 1, 2 * FrequentRate + 10}

RateElapsed ==
    {0, 1, SessionMinute \div 2, SessionMinute - 1, SessionMinute,
     SessionMinute + 1, 2 * SessionMinute}

\* sum(1 for d in blink_durations if d > 0.4)
SlowBlinks(durs) ==
    Cardinality({i \in 1..Len(durs) : durs[i] > SlowBlinkTicks})

\* blink_rate > 25, the rate not rounded
FrequentBlinks(count, session_duration) ==
    /\ session_duration >= SessionMinute
    /\ count * SessionMinute > FrequentRate * session_duration

RECURSIVE SumSquares(_)
SumSquares(q) ==
    IF q = <<>> THEN 0 ELSE Head(q) * Head(q) + SumSquares(Tail(q))

\* _calculate_rhythm_irregularity(): stdev / mean of the intervals, given
\* by its square as a fraction <<numerator, denominator>> (the sample
\* variance over the squared mean); 0 with fewer than 5 intervals or a zero
\* mean.  The cap min(1.0, .) of the code is left out: it changes no
\* comparison with 0.5.
RhythmIrregularitySq(q) ==
    IF Len(q) < MinRhythmSamples \/ SumSeq(q) = 0 THEN <<0, 1>>
    ELSE <<Len(q) * (Len(q) * SumSquares(q) - SumSeq(q) * SumSeq(q)),
           (Len(q) - 1) * SumSeq(q) * SumSeq(q)>>

\* x > 0.5 for a value given by its square num / den
OverHalf(sq) == 4 * sq[1] > sq[2]

\* pattern of analyze_blink_pattern(): the indicators tried in turn
PatternOfMut(slow, n, frequent, rhythm) ==
    IF frequent THEN "stress_detected"
    ELSE IF 10 * slow > 3 * n THEN "fatigue_detected"
    ELSE IF OverHalf(rhythm) THEN "irregular_pattern"
    ELSE "normal"

PatternOf(slow, n, frequent, rhythm) ==
    IF 10 * slow > 3 * n THEN "fatigue_detected"
    ELSE IF frequent THEN "stress_detected"
    ELSE IF OverHalf(rhythm) THEN "irregular_pattern"
    ELSE "normal"

\* analyze_blink_pattern(): slow_blinks is given as <<slow, recorded>>
AnalyzePattern(durs, ints, count, session_duration) ==
    IF Len(durs) < MinPatternSamples
    THEN [fatigue_indicators |-> <<>>, pattern |-> "insufficient_data"]
    ELSE [fatigue_indicators |->
              [slow_blinks |-> <<SlowBlinks(durs), Len(durs)>>,
               frequent_blinks |-> FrequentBlinks(count, session_duration),
               irregular_rhythm |-> RhythmIrregularitySq(ints)],
          pattern |-> PatternOf(SlowBlinks(durs), Len(durs),
                                FrequentBlinks(count, session_duration),
                                RhythmIrregularitySq(ints)),
          blink_rate_per_minute |-> BlinkRateAt(count, session_duration),
          avg_duration_ms |-> AvgSeq(durs),
          avg_interval_ms |-> AvgSeq(ints)]

\* no recorded data under study
InitStatisticsIdle ==
    /\ ap_durations = <<>>
    /\ ap_intervals = <<>>
    /\ ap_count = 0
    /\ ap_elapsed = 0
    /\ ap_out = <<>>

\* recorded data of the input sets, no call made yet
InitStatisticsInputs ==
    /\ ap_durations \in PatternDurations
    /\ ap_intervals \in PatternIntervals
    /\ ap_count \in RateCounts
    /\ ap_elapsed \in RateElapsed
    /\ ap_out = <<>>

\* get_statistics()
BlinkGetStatistics ==
    /\ ap_out' = [op |-> "get_statistics",
                  total_blinks |-> ap_count,
                  blink_rate_per_minute |-> BlinkRateAt(ap_count, ap_elapsed),
                  avg_blink_duration_ms |-> AvgSeq(ap_durations),
                  avg_blink_interval_ms |-> AvgSeq(ap_intervals)]
    /\ UNCHANGED <<ap_durations, ap_intervals, ap_count, ap_elapsed>>
    /\ UNCHANGED <<coreVars, constructVars, bufVars, captureVars,
                   extVars>>

\* analyze_blink_pattern()
BlinkAnalyzePattern ==
    /\ ap_out' = [op |-> "analyze_blink_pattern",
                  result |-> AnalyzePattern(ap_durations, ap_intervals,
                                            ap_count, ap_elapsed)]
    /\ UNCHANGED <<ap_durations, ap_intervals, ap_count, ap_elapsed>>
    /\ UNCHANGED <<coreVars, constructVars, bufVars, captureVars,
                   extVars>>

NextStatistics == BlinkGetStatistics \/ BlinkAnalyzePattern

\* ------------------------------------------------- the rolling buffers
\* the deques of the three components
BufferNames ==
    {"_ear_buffer", "_yaw_queue", "blink_durations", "blink_intervals",
     "_ear_buf", "_yaw_filter", "_pitch_filter", "_shoulder_filter",
     "_dist_filter"}

\* the maxlen each is created with
BufferCap(name) ==
    CASE name = "_ear_buffer" -> EarBufferCap
      [] name = "_yaw_queue" -> YawQueueCap
      [] name \in {"blink_durations", "blink_intervals"} -> HistoryCap
      [] name = "_ear_buf" -> DrowsyEarBufCap
      [] name \in {"_yaw_filter", "_pitch_filter", "_shoulder_filter"}
           -> AngleFilterCap
      [] name = "_dist_filter" -> DistFilterCap

\* no buffer under study
InitBuffersIdle == bq_name = "none" /\ bq = <<>> /\ bq_appended = 0

\* one of the buffers as its constructor leaves it
InitBuffersInputs == bq_name \in BufferNames /\ bq = <<>> /\ bq_appended = 0

\* append(x) on the buffer, x the number of the call
BufferAppend ==
    /\ bq_name \in BufferNames
    /\ bq_appended < BufferCap(bq_name) + BufferExtra
    /\ bq' = DequeAppend(bq, bq_appended + 1, BufferCap(bq_name))
    /\ bq_appended' = bq_appended + 1
    /\ UNCHANGED <<bq_name, coreVars, constructVars, statVars, captureVars,
                   extVars>>

NextBuffers == BufferAppend

\* ------------------------------ the capture thread and the processing loop
\* EyeTracker.start() done, no frame read yet, the processing loop about to
\* call process_frame
InitCapture ==
    /\ et_latest = <<>>
    /\ et_captured = 0
    /\ loop_pc = "idle"
    /\ loop_iterations = 0
    /\ fed = <<>>

\* EyeTracker._capture_loop, one turn: a frame is read and processed, with a
\* face found in it or not, and its sample stored under the lock
CaptureFrame ==
    /\ et_captured < MaxCaptured
    /\ \E face \in BOOLEAN :
           et_latest' = [seq |-> et_captured + 1, face |-> face]
    /\ et_captured' = et_captured + 1
    /\ UNCHANGED <<loop_pc, loop_iterations, fed>>
    /\ UNCHANGED <<coreVars, constructVars, statVars, bufVars,
                   extVars>>

\* process_frame, up to the call of blink_detector.update: get_latest() is
\* read, and the frame is given up when no sample or no face is there
ProcessFrameCheck ==
    /\ loop_pc = "idle"
    /\ loop_iterations < MaxIterations
    /\ loop_iterations' = loop_iterations + 1
    /\ loop_pc' = IF et_latest = <<>> \/ ~et_latest.face THEN "idle"
                  ELSE "update"
    /\ UNCHANGED <<et_latest, et_captured, fed>>
    /\ UNCHANGED <<coreVars, constructVars, statVars, bufVars,
                   extVars>>

\* BlinkDetector.update inside process_frame: get_latest() is read again and
\* its avg_ear goes to _detect, which clears _ear_buffer when there is none
\* and appends it otherwise
ProcessFrameBlinkUpdate ==
    /\ loop_pc = "update"
    /\ fed' = IF et_latest.face
              THEN DequeAppend(fed, et_latest.seq, EarBufferCap)
              ELSE <<>>
    /\ loop_pc' = "idle"
    /\ UNCHANGED <<et_latest, et_captured, loop_iterations>>
    /\ UNCHANGED <<coreVars, constructVars, statVars, bufVars,
                   extVars>>

NextCapture == CaptureFrame \/ ProcessFrameCheck \/ ProcessFrameBlinkUpdate

\* ------------------------------- process_frame: posture, then drowsiness
\* PostureAnalyzer.get_latest() when self._latest is l
GetLatestOf(l) == IF DOMAIN l = {} THEN EmptyResult ELSE l

\* normalize_angle(angle) of _normalize_posture_angles: whole turns taken off
\* until the angle lies in [-180, 180], angle in 1/AngleScale degree
RECURSIVE WrapAngle(_)
WrapAngle(angle) ==
    IF angle = None THEN None
    ELSE IF angle > StraightAngle * AngleScale
    THEN WrapAngle(angle - 2 * StraightAngle * AngleScale)
    ELSE IF angle < 0 - StraightAngle * AngleScale
    THEN WrapAngle(angle + 2 * StraightAngle * AngleScale)
    ELSE angle

\* _normalize_posture_angles(posture_data) on a PostureAnalyzer result, read
\* the way DrowsinessDetector reads it, with dict.get
NormalizePostureAngles(r) ==
    [present |-> TRUE,
     head_side_angle |-> WrapAngle(r.head_side_angle),
     head_updown_angle |-> WrapAngle(r.head_updown_angle),
     shoulder_tilt |-> WrapAngle(r.shoulder_tilt),
     eye_distance_cm |-> r.eye_distance_cm]

\* posture_data = {}: a dict, every get of which gives None
EmptyDict == Posture(None, None, None, None)

\* the frames process_frame gets: none, one without a pose, and poses at a
\* good distance, too close (clipped up), too far (clipped down), with the
\* eyes too close together to tell, and with the head turned
PipelineInputs ==
    {NoFrame, NoPose,
     Pose(5, 8, 3, 60), Pose(5, 8, 3, 200), Pose(5, 8, 3, 30),
     Pose(5, 8, 3, 20), Pose(30, 8, 3, 60)}

\* the avg_ear of the eye sample of the frame
PipelineEars == {10, 40}

\* process_frame not yet called
InitPipeline ==
    /\ pf_in = NoFrame
    /\ posture_data = NoPosture
    /\ processed_frames = 0

\* process_frame from the posture step on: analyze and get_latest when there
\* is a frame, then DrowsinessDetector.update with the result
ProcessFramePosture ==
    \E pose \in PipelineInputs, ear \in PipelineEars :
        /\ processed_frames < MaxFrames
        /\ pf_in' = pose
        /\ IF pose.kind = "no_frame"
           THEN /\ posture_data' = EmptyDict
                /\ UNCHANGED postureVars
           ELSE /\ PostureAnalyzeStep(pose, "vision")
                /\ posture_data' = NormalizePostureAngles(GetLatestOf(latest'))
        /\ DrowsyUpdateAt(ear, posture_data', now + DrowsyDt)
        /\ processed_frames' = processed_frames + 1
        /\ UNCHANGED <<lastIn, switches>>
        /\ UNCHANGED <<blinkVars, normVars, constructVars, statVars,
                       bufVars, captureVars, managerVars, chatVars>>

NextPipeline == ProcessFramePosture

\* --------------------------------------------------------- VisionManager
\* the background threads that are inside process_frame
Processing == {i \in DOMAIN mgr_threads : mgr_threads[i].pc = "process"}

\* VisionManager.__init__
InitManager ==
    /\ is_running = FALSE
    /\ vision_app = None
    /\ mgr_threads = <<>>
    /\ mgr_starts = 0

\* VisionManager.start(), the whole body under self.lock: refused while
\* running; else a new AEyeProVisionApp is built, and either its modules
\* fail to initialize, or an exception is raised, or the vision thread is
\* created and started
ManagerStart ==
    \E outcome \in {"started", "initialization_failed", "exception"} :
        /\ ~is_running
        /\ mgr_starts < MaxStarts
        /\ mgr_starts' = mgr_starts + 1
        /\ IF outcome = "started"
           THEN /\ vision_app' = mgr_starts + 1
                /\ is_running' = TRUE
                /\ mgr_threads' =
                       Append(mgr_threads, [pc |-> "check", app |-> None])
           ELSE IF outcome = "initialization_failed"
           THEN /\ vision_app' = mgr_starts + 1
                /\ UNCHANGED <<is_running, mgr_threads>>
           ELSE /\ vision_app' = None
                /\ is_running' = FALSE
                /\ UNCHANGED mgr_threads
        /\ UNCHANGED <<coreVars, constructVars, statVars, bufVars,
                       captureVars, pipelineVars, chatVars>>

\* VisionManager.stop(), the whole body under self.lock: the flag is cleared,
\* a helper thread is left to join the vision thread, the application is shut
\* down and dropped
ManagerStop ==
    /\ is_running
    /\ is_running' = FALSE
    /\ vision_app' = None
    /\ UNCHANGED <<mgr_threads, mgr_starts>>
    /\ UNCHANGED <<coreVars, constructVars, statVars, bufVars,
                   captureVars, pipelineVars, chatVars>>

\* _vision_loop, the head of the while loop: is_running read under the lock
LoopCheck ==
    \E i \in DOMAIN mgr_threads :
        /\ mgr_threads[i].pc = "check"
        /\ mgr_threads' =
               [mgr_threads EXCEPT
                   ![i].pc = IF is_running THEN "call" ELSE "ended"]
        /\ UNCHANGED <<is_running, vision_app, mgr_starts>>
        /\ UNCHANGED <<coreVars, constructVars, statVars, bufVars,
                       captureVars, pipelineVars, chatVars>>

\* _vision_loop: self.vision_app.process_frame() is entered on whatever
\* self.vision_app is now; on None the AttributeError is caught and the loop
\* goes back to its head after the pause
LoopProcessFrame ==
    \E i \in DOMAIN mgr_threads :
        /\ mgr_threads[i].pc = "call"
        /\ mgr_threads' =
               IF vision_app = None
               THEN [mgr_threads EXCEPT ![i].pc = "check"]
               ELSE [mgr_threads EXCEPT ![i] =
                        [pc |-> "process", app |-> vision_app]]
        /\ UNCHANGED <<is_running, vision_app, mgr_starts>>
        /\ UNCHANGED <<coreVars, constructVars, statVars, bufVars,
                       captureVars, pipelineVars, chatVars>>

\* _vision_loop: process_frame returns, the results are stored, the loop
\* sleeps and goes back to its head
LoopFrameDone ==
    \E i \in DOMAIN mgr_threads :
        /\ mgr_threads[i].pc = "process"
        /\ mgr_threads' =
               [mgr_threads EXCEPT ![i] = [pc |-> "check", app |-> None]]
        /\ UNCHANGED <<is_running, vision_app, mgr_starts>>
        /\ UNCHANGED <<coreVars, constructVars, statVars, bufVars,
                       captureVars, pipelineVars, chatVars>>

NextManager ==
    ManagerStart \/ ManagerStop \/ LoopCheck \/ LoopProcessFrame
    \/ LoopFrameDone

\* ---------------------------------------------------------- chatbot graph
\* the questions: the contextualized form of the user's, and the n-th
\* output of rewrite_query
Contextualized == <<"contextualized", 0>>
Rewritten(n) == <<"rewritten", n>>

\* route_from_guardrails(state)
RouteFromGuardrails(r) == IF r = "social" THEN "social_bot" ELSE "contextualize"

\* route_from_query_analysis(state), through the edge map
RouteFromQueryAnalysisMut(intent) ==
    IF intent = "realtime_data" THEN "csv_node"
    ELSE IF intent = "chunked_data" THEN "retriever_node"
    ELSE IF intent = "both" THEN "retriever_node"
    ELSE "generator"
RouteFromQueryAnalysis(intent) ==
    IF intent = "realtime_data" THEN "csv_node"
    ELSE IF intent = "chunked_data" THEN "retriever_node"
    ELSE IF intent = "both" THEN "csv_node"
    ELSE "generator"

\* route_after_csv(state)
RouteAfterCsv(intent) == IF intent = "both" THEN "retriever_node" ELSE "generator"

\* route_from_answer_grader(state) that looks at answer_valid only
RouteFromAnswerGraderMut(valid, retries, limit) ==
    IF valid THEN "END" ELSE "rewriter"

\* route_from_answer_grader(state), through the edge map
RouteFromAnswerGrader(valid, retries, limit) ==
    IF valid THEN "END"
    ELSE IF retries >= limit THEN "END"
    ELSE "rewriter"

\* the number of times node n appears in path p
RECURSIVE CountIn(_, _)
CountIn(p, n) ==
    IF p = <<>> THEN 0
    ELSE (IF Head(p) = n THEN 1 ELSE 0) + CountIn(Tail(p), n)

\* no graph run in progress
InitChatbotIdle ==
    /\ retries_limit = 0
    /\ cb_input = [route |-> "social", intent |-> "chunked_data"]
    /\ cb_node = "END"
    /\ cb_path = <<>>
    /\ route = "health"
    /\ reformulated_question = <<>>
    /\ analyzed_intent = "fall_back"
    /\ sub_queries = <<>>
    /\ retry_count = 0
    /\ answer_valid = TRUE
    /\ cb_read = <<>>
    /\ cb_rewrites = <<>>

\* graph_app.invoke(inputs) of chat_interface on every kind of message
\* (what detect_intent_from_text and heuristic_analyze_intent make of it)
\* and every retry limit up to MaxRetries; the graph is about to run its
\* entry point
InitChatbotInputs ==
    /\ retries_limit \in 0..MaxRetries
    /\ cb_input \in [route : {"social", "health"},
                     intent : {"realtime_data", "chunked_data", "both"}]
    /\ cb_node = "guardrails"
    /\ cb_path = <<>>
    /\ route = "health"
    /\ reformulated_question = <<>>
    /\ analyzed_intent = "fall_back"
    /\ sub_queries = <<>>
    /\ retry_count = 0
    /\ answer_valid = TRUE
    /\ cb_read = <<>>
    /\ cb_rewrites = <<>>

\* what every node leaves alone
ChatbotFrame ==
    /\ UNCHANGED <<retries_limit, cb_input>>
    /\ UNCHANGED <<coreVars, constructVars, statVars, bufVars, captureVars,
                   pipelineVars, managerVars>>

\* guardrails_node and the edge out of it
Guardrails ==
    /\ cb_node = "guardrails"
    /\ route' = cb_input.route
    /\ cb_node' = RouteFromGuardrails(route')
    /\ cb_path' = Append(cb_path, "guardrails")
    /\ UNCHANGED <<reformulated_question, analyzed_intent, sub_queries,
                   retry_count, answer_valid, cb_read, cb_rewrites>>
    /\ ChatbotFrame

\* social_response_node, then END
SocialBot ==
    /\ cb_node = "social_bot"
    /\ cb_node' = "END"
    /\ cb_path' = Append(cb_path, "social_bot")
    /\ UNCHANGED <<route, reformulated_question, analyzed_intent, sub_queries,
                   retry_count, answer_valid, cb_read, cb_rewrites>>
    /\ ChatbotFrame

\* contextualize_node, then query_analysis
Contextualize ==
    /\ cb_node = "contextualize"
    /\ reformulated_question' = Contextualized
    /\ cb_node' = "query_analysis"
    /\ cb_path' = Append(cb_path, "contextualize")
    /\ UNCHANGED <<route, analyzed_intent, sub_queries, retry_count,
                   answer_valid, cb_read, cb_rewrites>>
    /\ ChatbotFrame

\* analyze_query_node and the edge out of it: the intent and the sub_queries
\* are made from reformulated_question
QueryAnalysis ==
    /\ cb_node = "query_analysis"
    /\ analyzed_intent' = cb_input.intent
    /\ sub_queries' = <<reformulated_question>>
    /\ cb_node' = RouteFromQueryAnalysis(analyzed_intent')
    /\ cb_path' = Append(cb_path, "query_analysis")
    /\ UNCHANGED <<route, reformulated_question, retry_count, answer_valid,
                   cb_read, cb_rewrites>>
    /\ ChatbotFrame

\* csv_analyst_node and the edge out of it
CsvNode ==
    /\ cb_node = "csv_node"
    /\ cb_read' = Append(cb_read, [node |-> "csv_node",
                                   sub_queries |-> sub_queries,
                                   retry_count |-> retry_count])
    /\ cb_node' = RouteAfterCsv(analyzed_intent)
    /\ cb_path' = Append(cb_path, "csv_node")
    /\ UNCHANGED <<route, reformulated_question, analyzed_intent, sub_queries,
                   retry_count, answer_valid, cb_rewrites>>
    /\ ChatbotFrame

\* medical_retriever_node, then doc_grader
RetrieverNode ==
    /\ cb_node = "retriever_node"
    /\ cb_read' = Append(cb_read, [node |-> "retriever_node",
                                   sub_queries |-> sub_queries,
                                   retry_count |-> retry_count])
    /\ cb_node' = "doc_grader"
    /\ cb_path' = Append(cb_path, "retriever_node")
    /\ UNCHANGED <<route, reformulated_question, analyzed_intent, sub_queries,
                   retry_count, answer_valid, cb_rewrites>>
    /\ ChatbotFrame

\* doc_grader_node, then generator
DocGrader ==
    /\ cb_node = "doc_grader"
    /\ cb_node' = "generator"
    /\ cb_path' = Append(cb_path, "doc_grader")
    /\ UNCHANGED <<route, reformulated_question, analyzed_intent, sub_queries,
                   retry_count, answer_valid, cb_read, cb_rewrites>>
    /\ ChatbotFrame

\* generator_node, then answer_grader
Generator ==
    /\ cb_node = "generator"
    /\ cb_node' = "answer_grader"
    /\ cb_path' = Append(cb_path, "generator")
    /\ UNCHANGED <<route, reformulated_question, analyzed_intent, sub_queries,
                   retry_count, answer_valid, cb_read, cb_rewrites>>
    /\ ChatbotFrame

\* answer_grader_node and the edge out of it: the grader accepts or rejects
\* the generation
AnswerGrader ==
    \E is_valid \in BOOLEAN :
        /\ cb_node = "answer_grader"
        /\ answer_valid' = is_valid
        /\ cb_node' = RouteFromAnswerGrader(is_valid, retry_count,
                                            retries_limit)
        /\ cb_path' = Append(cb_path, "answer_grader")
        /\ UNCHANGED <<route, reformulated_question, analyzed_intent,
                       sub_queries, retry_count, cb_read, cb_rewrites>>
        /\ ChatbotFrame

\* rewriter_node, then query_analysis
Rewriter ==
    /\ cb_node = "rewriter"
    /\ sub_queries' = <<Rewritten(retry_count + 1)>>
    /\ retry_count' = retry_count + 1
    /\ cb_rewrites' = Append(cb_rewrites,
                             [answer_valid |-> answer_valid,
                              retry_count |-> retry_count])
    /\ cb_node' = "query_analysis"
    /\ cb_path' = Append(cb_path, "rewriter")
    /\ UNCHANGED <<route, reformulated_question, analyzed_intent,
                   answer_valid, cb_read>>
    /\ ChatbotFrame

NextChatbot ==
    \/ Guardrails \/ SocialBot \/ Contextualize \/ QueryAnalysis
    \/ CsvNode \/ RetrieverNode \/ DocGrader \/ Generator
    \/ AnswerGrader \/ Rewriter

InitExtIdle == InitPipeline /\ InitManager /\ InitChatbotIdle

\* nothing outside the detectors under study
InitAuxIdle ==
    InitConstructIdle /\ InitStatisticsIdle /\ InitBuffersIdle /\ InitCapture
    /\ InitExtIdle

Init == InitBlink /\ InitDrowsy /\ InitPosture /\ InitNormalizeIdle /\ InitAuxIdle

Next ==
    \/ NextBlink \/ NextDrowsy \/ NextPosture \/ NextNormalize
    \/ NextConstruct \/ NextStatistics \/ NextBuffers \/ NextCapture
    \/ NextPostureAEyePro \/ NextPipeline \/ NextManager \/ NextChatbot

\* the two detectors driven from one loop
Spec == Init /\ [][Next]_vars

\* BlinkDetector alone
SpecBlink == Init /\ [][NextBlink]_vars

\* DrowsinessDetector alone
SpecDrowsy == Init /\ [][NextDrowsy]_vars

\* PostureAnalyzer alone
SpecPosture == Init /\ [][NextPosture]_vars

\* the PostureAnalyzer of AEyePro/vision alone
SpecPostureAEyePro == Init /\ [][NextPostureAEyePro]_vars

\* the posture and drowsiness steps of process_frame
SpecPipeline == Init /\ [][NextPipeline]_vars

\* VisionManager with its vision threads
SpecManager == Init /\ [][NextManager]_vars

\* _normalize_angle_to_zero on every angle of NormalizeInputs
InitNormalize ==
    InitBlink /\ InitDrowsy /\ InitPosture /\ InitNormalizeInputs /\ InitAuxIdle

SpecNormalize == InitNormalize /\ [][NextNormalize]_vars

\* the detectors at rest
InitCore == InitBlink /\ InitDrowsy /\ InitPosture /\ InitNormalizeIdle

\* one run of the chatbot graph on every input of InitChatbotInputs
InitChatbot ==
    /\ InitCore
    /\ InitConstructIdle /\ InitStatisticsIdle /\ InitBuffersIdle
    /\ InitCapture /\ InitPipeline /\ InitManager /\ InitChatbotInputs

SpecChatbot == InitChatbot /\ [][NextChatbot]_vars

\* the same run, LangGraph going on to the next node until it reaches END
SpecChatbotFair == InitChatbot /\ [][NextChatbot]_vars /\ WF_vars(NextChatbot)

\* the two constructors on every settings.json of InitConstructInputs
InitConstruct ==
    /\ InitCore
    /\ InitConstructInputs /\ InitStatisticsIdle /\ InitBuffersIdle /\ InitCapture
    /\ InitExtIdle

SpecConstruct == InitConstruct /\ [][NextConstruct]_vars

\* get_statistics and analyze_blink_pattern on the recorded data of
\* InitStatisticsInputs
InitStatistics ==
    /\ InitCore
    /\ InitConstructIdle /\ InitStatisticsInputs /\ InitBuffersIdle /\ InitCapture
    /\ InitExtIdle

SpecStatistics == InitStatistics /\ [][NextStatistics]_vars

\* each rolling buffer filled from empty to past its capacity
InitBuffers ==
    /\ InitCore
    /\ InitConstructIdle /\ InitStatisticsIdle /\ InitBuffersInputs /\ InitCapture
    /\ InitExtIdle

SpecBuffers == InitBuffers /\ [][NextBuffers]_vars

\* the capture thread and the processing loop, interleaved
SpecCapture == Init /\ [][NextCapture]_vars

\* =========================================================== properties
\* a step that is one BlinkDetector.update call (the clock moves in no other)
BlinkUpdateStep == now' # now

GuardReasons == {"no_ear_data", "head_pitch_exceeded", "head_yaw_exceeded"}

\* the update of this step ends the closed-eye run that was under way
EndsRun == run.len > 0 /\ run'.len = 0

\* the run has enough frames, is long enough and far enough from the blink before
RunQualifies ==
    /\ run.len >= consecutive_frames
    /\ now' - run.start >= min_blink_gap
    /\ (prevBlinkAt = None \/ now' - prevBlinkAt >= min_blink_gap)

\* C1 as stated: in a sequence of updates that all have EAR and pass the head
\* guards, an update registers a blink if and only if it ends a maximal run
\* of closed-eye frames that has at least consecutive_frames frames, lasts at
\* least min_blink_interval and ends at least min_blink_interval after the
\* previously registered blink.
C1_AsStated ==
    [][(BlinkUpdateStep /\ irregular' = 0)
         => (info'.blink_detected <=> (EndsRun /\ RunQualifies))]_vars

\* C1, amended: in every sequence of updates, an update registers a blink if
\* and only if it has EAR and passes the head guards, ends a maximal run of
\* closed-eye frames, the run qualifies as above, and no frame of the run came
\* more than max_blink_duration after the run's first frame (such a run is
\* cut off as blink_too_long and registers nothing).
C1_BlinkIffQualifyingRun ==
    [][BlinkUpdateStep
         => (info'.blink_detected
               <=> /\ info'.reason \notin GuardReasons
                   /\ EndsRun
                   /\ RunQualifies
                   /\ ~run.over)]_vars

\* C1 witness: an update has just ended a qualifying run and registered a
\* valid blink
C1_Witness ==
    /\ bop = "update"
    /\ "blink_detected" \in DOMAIN info
    /\ info.blink_detected
    /\ info.reason = "valid_blink"

\* C5 as stated: after the seven samples of the scenario exactly one valid
\* blink of 4/30 s is registered.
C5_AsStated ==
    scen = 7 => (blink_count = 1 /\ blink_durations = <<4 * FramePeriod>>)

\* C5, amended: the median of the last five samples lags the raw signal by
\* two frames, so no blink is registered while the seven samples are fed nor
\* with the next open-eye sample; the second further open-eye sample (the
\* ninth update) registers exactly one valid blink, of duration 4/30 s.
C5_BlinkAfterTwoMoreOpenFrames ==
    /\ (scen # None /\ scen <= 8) => (blink_count = 0 /\ blink_durations = <<>>)
    /\ scen = 9 => /\ blink_count = 1
                   /\ blink_durations = <<4 * FramePeriod>>
                   /\ info.blink_detected
                   /\ info.reason = "valid_blink"

\* C5 witness: the whole scenario and the two further open-eye frames were fed
C5_Witness == scen = 9 /\ blink_count = 1

\* 0.05 s, half of min_blink_interval
OpenEyeGap == min_blink_gap \div 2

\* C6 as stated: a closed-eye run that begins 0.05 s after the update that
\* registered the previous blink (0.05 s of open eye between the two runs),
\* and is otherwise valid, is rejected by the update that ends it, with
\* reason too_soon_after_previous.
C6_AsStated ==
    [][(/\ BlinkUpdateStep
        /\ EndsRun
        /\ info'.reason \notin GuardReasons
        /\ prevBlinkAt # None
        /\ run.start - prevBlinkAt = OpenEyeGap
        /\ run.len >= consecutive_frames
        /\ now' - run.start >= min_blink_gap
        /\ ~run.over)
         => (~info'.blink_detected
             /\ info'.reason = "too_soon_after_previous")]_vars

\* C7 as stated: a closed-eye run whose total length, from its first closed
\* frame to the update that ends it, exceeds max_blink_duration registers no
\* blink, neither during the run nor at its end.
C7_AsStated ==
    [][(BlinkUpdateStep /\ run.len > 0 /\ now' - run.start > max_blink_dur)
         => ~info'.blink_detected]_vars

\* C8: an update that returns no_ear_data, head_pitch_exceeded or
\* head_yaw_exceeded leaves the counting flag false and the closed-frame
\* counter 0, reports no blink, and changes neither the cumulative count, the
\* last-blink time stamp nor the two histories.
C8_GuardAbortsAndKeepsStatistics ==
    [][(BlinkUpdateStep /\ info'.reason \in GuardReasons)
         => /\ ~counting_active'
            /\ closed_frames' = 0
            /\ ~info'.blink_detected
            /\ UNCHANGED <<blink_count, last_blink_ts, blink_durations,
                           blink_intervals>>]_vars

\* C8 witness: a head guard fired after a blink had been recorded
C8_Witness ==
    /\ bop = "update"
    /\ "reason" \in DOMAIN info
    /\ info.reason \in {"head_pitch_exceeded", "head_yaw_exceeded"}
    /\ blink_count = 1
    /\ blink_durations # <<>>

\* C9: an update never lowers the cumulative blink count and raises it by at
\* most one; the count falls only in reset_statistics, and then to 0.
C9_CountMonotone ==
    [][/\ BlinkUpdateStep
          => (blink_count' >= blink_count /\ blink_count' <= blink_count + 1)
       /\ blink_count' < blink_count
          => (bop' = "reset_statistics" /\ now' = now /\ blink_count' = 0)]_vars

\* C9 witness: reset_statistics has just brought a positive count back to 0
C9_Witness ==
    /\ bop = "reset_statistics"
    /\ blink_count = 0
    /\ prevBlinkAt # None

\* a step that is one DrowsinessDetector.update call
DrowsyUpdateStep == now' # now

AnySignal(sig) == sig[1] \/ sig[2] \/ sig[3]

\* C2: when the detector is drowsy, an update in which no condition is true
\* and which comes less than 0.5 s after the first update of the current
\* unbroken series of such updates still reports drowsiness_detected = true.
C2_HeldInsideReleaseWindow ==
    [][(/\ DrowsyUpdateStep
        /\ drowsy
        /\ ~AnySignal(signals')
        /\ now' - zeroSince' < DROWSY_RELEASE_SEC)
         => (drowsy' /\ dinfo'.drowsiness_detected)]_vars

\* C2 witness: drowsy, some update strictly inside the release window done
C2_Witness ==
    /\ dop = "update"
    /\ drowsy
    /\ ~AnySignal(signals)
    /\ zeroSince # None
    /\ now - zeroSince > 0
    /\ now - zeroSince < DROWSY_RELEASE_SEC

\* C3: an update in which at least one condition is true reports drowsy, and
\* the drowsy state goes from false to true only in such an update.
C3_DrowsyIffSignalled ==
    [][/\ (DrowsyUpdateStep /\ AnySignal(signals'))
            => (drowsy' /\ dinfo'.drowsiness_detected)
       /\ (~drowsy /\ drowsy')
            => (DrowsyUpdateStep /\ AnySignal(signals'))]_vars

\* C3 witness: an update with exactly one condition true has made the
\* detector drowsy
C3_Witness ==
    /\ dop = "update"
    /\ drowsy
    /\ BoolToInt(signals[1]) + BoolToInt(signals[2]) + BoolToInt(signals[3]) = 1

\* C4: while drowsy, an update with no condition true clears the state exactly
\* when at least 0.5 s have passed since the first update of the current
\* unbroken series of updates with no condition true; an update with a
\* condition true keeps the state and forgets the pending release, so that a
\* new series has to last 0.5 s again.
C4_ReleaseAfterFullWindow ==
    [][/\ (DrowsyUpdateStep /\ drowsy /\ ~AnySignal(signals'))
            => (drowsy' <=> now' - zeroSince' < DROWSY_RELEASE_SEC)
       /\ (DrowsyUpdateStep /\ AnySignal(signals'))
            => (drowsy' /\ drowsy_end_time' = None)]_vars

\* C4 witness: a release was pending, a condition came back and cancelled it,
\* and the state has now been cleared at the end of a later, full window
C4_Witness ==
    /\ dop = "update"
    /\ cancelled
    /\ ~drowsy
    /\ zeroSince # None
    /\ now - zeroSince >= DROWSY_RELEASE_SEC
    /\ now - zeroSince < 2 * DROWSY_RELEASE_SEC

\* C10: the low-EAR timer starts only in an update that is at least the third
\* in a row with smoothed EAR below drowsy_threshold, it starts at that
\* update's time and keeps its value until it is cleared; the low-EAR
\* condition of an update is true exactly when the timer is then running and
\* at least ear_duration_threshold has passed since it started.
C10_LowEarTimer ==
    [][DrowsyUpdateStep
         => /\ (ear_low_start = None /\ ear_low_start' # None)
                 => (lowRun' >= EAR_CONSEC_FRAMES /\ ear_low_start' = now')
            /\ (ear_low_start # None /\ ear_low_start' # None)
                 => ear_low_start' = ear_low_start
            /\ signals'[1] <=> (/\ ear_low_start' # None
                                /\ now' - ear_low_start' >= ear_duration_th)]_vars

\* C10 witness: the low-EAR condition is true
C10_Witness ==
    /\ dop = "update"
    /\ signals[1]
    /\ ear_low_start # None
    /\ lowRun > EAR_CONSEC_FRAMES

\* the EAR sample and the posture data of the update of this step
EarIn == lastIn'[1]
PostureIn == lastIn'[2]

\* both low-EAR fields are clear after the step
EarTimerCleared == ear_low_start' = None /\ ear_low_frames' = 0

\* C11 as stated: an update whose EAR sample is at or above drowsy_threshold
\* clears the low-EAR timer and the consecutive-low-frame counter in that
\* same update, whatever the earlier samples were.
C11_AsStated ==
    [][(DrowsyUpdateStep /\ EarIn # None /\ EarIn >= drowsy_ear_th)
         => EarTimerCleared]_vars

\* C11, amended: the test is made on the smoothed EAR, the weighted average of
\* the last (up to five) samples including this one; an update whose smoothed
\* EAR is at or above drowsy_threshold clears the timer and the counter in
\* that same update, and an open-eye sample whose smoothed value is still
\* below the threshold clears neither.
C11_SmoothedOpenClearsTimer ==
    [][(DrowsyUpdateStep /\ EarIn # None)
         => /\ ~FilteredBelow(ear_buf', drowsy_ear_th) => EarTimerCleared
            /\ FilteredBelow(ear_buf', drowsy_ear_th)
                 => /\ ear_low_frames' = ear_low_frames + 1
                    /\ (ear_low_start # None => ear_low_start' = ear_low_start)]_vars

\* C11 witness: three low samples started the timer, the first open-eye sample
\* left the smoothed EAR below the threshold, the second one has cleared the
\* timer (one change of input, no reset in between)
C11_Witness ==
    /\ dop = "update"
    /\ switches = 1
    /\ lastIn[1] = 40
    /\ ear_buf = <<10, 10, 10, 40, 40>>
    /\ ear_low_start = None
    /\ ear_low_frames = 0

\* C12: the bad-posture condition is true in an update exactly when the
\* bad-posture predicate has held in every update since one made at least 3 s
\* earlier; an update where the predicate is false or posture data are absent
\* (and a reset) restarts the count.
C12_BadPostureAfterFullWindow ==
    [][DrowsyUpdateStep
         => /\ signals'[2] <=> (/\ badSince' # None
                                /\ now' - badSince' >= posture_window_sec)
            /\ posture_bad_start' = badSince'
            /\ ~BadPosturePredicate(PostureIn) => posture_bad_start' = None]_vars

\* C12 witness: the predicate has held for 3 s and the condition is true, in
\* a series that began after the second update
C12_Witness ==
    /\ dop = "update"
    /\ signals[2]
    /\ badSince # None
    /\ badSince > Epoch + DrowsyDt
    /\ now - badSince >= posture_window_sec

\* the distance is present in the posture data
HasDistance(p) == p.present /\ p.eye_distance_cm # None

\* C13 as stated: while the gaze-off timer is running, an update that is the
\* first without distance data and comes less than 1 s after the last update
\* that had the distance (an absence of less than 1 s) does not reset the
\* timer, however long the timer has been running.
C13_AsStated ==
    [][(/\ DrowsyUpdateStep
        /\ now' - now < MAX_MISSING_DIST_SEC
        /\ gaze_off_start # None
        /\ lastIn # <<>>
        /\ HasDistance(lastIn[2])
        /\ PostureIn.present
        /\ PostureIn.eye_distance_cm = None)
         => gaze_off_start' = gaze_off_start]_vars

\* C14 as stated: an update with absent EAR leaves the low-EAR timer cleared,
\* an update with absent posture data leaves the bad-posture timer and the
\* gaze-off timer cleared, and the absent signal does not contribute.
C14_AsStated ==
    [][DrowsyUpdateStep
         => /\ EarIn = None => (ear_low_start' = None /\ ~signals'[1])
            /\ ~PostureIn.present
                 => /\ posture_bad_start' = None
                    /\ gaze_off_start' = None
                    /\ ~signals'[2]
                    /\ ~signals'[3]]_vars

\* the gaze-off predicate: the distance is present and below the minimum
GazeOffPredicate(p) ==
    HasDistance(p) /\ p.eye_distance_cm < min_gaze_distance_cm * DistScale

C16_AsStated ==
    /\ counting_active <=> closed_frames >= 1
    /\ counting_active <=> blink_start # 0

\* C16, amended: the counter is at least 1 exactly when the flag is set and is
\* 0 otherwise; while the flag is set the counter and the time stamp are those
\* of the current episode (its number of closed frames, the time of its first
\* one).  With the flag clear the time stamp keeps the start of the last
\* episode, which no update reads: a result built with the flag clear reports
\* closed_frames 0 and blink_duration 0.
C16_CounterAndStartFollowFlag ==
    /\ counting_active <=> closed_frames >= 1
    /\ ~counting_active => closed_frames = 0
    /\ counting_active => (closed_frames = run.len /\ blink_start = run.start)
    /\ (~counting_active /\ bop = "update" /\ "closed_frames" \in DOMAIN info)
         => (info.closed_frames = 0 /\ info.blink_duration = 0)

\* C16 witness: an episode is over, the flag is clear and the time stamp still
\* holds the start of that episode
C16_Witness ==
    /\ bop = "update"
    /\ ~counting_active
    /\ closed_frames = 0
    /\ blink_start > Epoch
    /\ "closed_frames" \in DOMAIN info
    /\ info.blink_duration = 0

\* the fields every result is to carry
ResultFields ==
    {"blink_detected", "reason", "ear_filtered", "closed_frames",
     "blink_duration", "time_since_last_blink", "total_blinks",
     "blink_rate_per_minute", "avg_blink_duration", "avg_blink_interval"}

\* C17 as stated: every result of update carries the full set of fields, on
\* the no_ear_data, insufficient_data, head-guard and blink_too_long paths too.
C17_AsStated ==
    "reason" \in DOMAIN info => ResultFields \subseteq DOMAIN info

\* the update of this step closes off, without a blink, an episode that was
\* being counted
EpisodeRejected ==
    counting_active /\ ~counting_active' /\ ~info'.blink_detected

\* C18 as stated: blink_detected is true exactly when the reason is
\* valid_blink, and exactly then the count grows by one; an update that cannot
\* decide (no EAR, fewer than 3 samples, head guard, over-long closure,
\* rejected episode) returns blink_detected false with a non-null reason.
C18_AsStated ==
    [][BlinkUpdateStep
         => /\ info'.blink_detected <=> info'.reason = "valid_blink"
            /\ info'.blink_detected <=> blink_count' = blink_count + 1
            /\ EpisodeRejected => info'.reason # "None"
            /\ info'.reason \in GuardReasons \cup {"insufficient_data",
                                                   "blink_too_long"}
                 => ~info'.blink_detected]_vars

\* C19 as stated: an analyze call with a detected pose whose inter-eye span
\* is below the configured minimum returns a null distance, whatever was
\* estimated in earlier frames.
C19_AsStated ==
    (pin.kind = "pose" /\ pin.eye_px < min_eye_px)
        => presult.eye_distance_cm = None

\* what the normalization is to return for an angle of -180..180 degrees
NormalizedAs(angle) ==
    IF angle > RightAngle * AngleScale THEN angle - StraightAngle * AngleScale
    ELSE IF angle < 0 - RightAngle * AngleScale
    THEN angle + StraightAngle * AngleScale
    ELSE angle

\* C20: on the angles from -180 to 180 degrees, _normalize_angle_to_zero
\* returns an angle of [-90, 90] unchanged, angle - 180 for an angle in
\* (90, 180] and angle + 180 for an angle in [-180, -90) (170 gives -10, -170
\* gives 10); the result lies in [-90, 90], and applying it twice gives the
\* same value as applying it once.
C20_NormalizeIdempotent ==
    nz_n >= 1
      => /\ nz_out = NormalizedAs(nz_in)
         /\ 0 - RightAngle * AngleScale <= nz_out
         /\ nz_out <= RightAngle * AngleScale
         /\ nz_in = 170 * AngleScale => nz_out = (0 - 10) * AngleScale
         /\ nz_in = (0 - 170) * AngleScale => nz_out = 10 * AngleScale

\* C20 witness: 170 degrees normalized twice is -10 degrees
C20_Witness ==
    /\ nz_n = 2
    /\ nz_in = 170 * AngleScale
    /\ nz_out = (0 - 10) * AngleScale

\* some reported angle exceeds its limit, or the reported distance is present
\* and outside [min, max]; r is a result of analyze
OverLimit(r) ==
    \/ Abs(r.head_side_angle) > max_head_yaw * AngleScale
    \/ Abs(r.head_updown_angle) > max_head_pitch * AngleScale
    \/ Abs(r.shoulder_tilt) > max_shoulder_tilt * AngleScale
    \/ /\ r.eye_distance_cm # None
       /\ ~(min_gaze_distance_cm * DistScale <= r.eye_distance_cm
            /\ r.eye_distance_cm <= max_gaze_distance_cm * DistScale)

\* C21: for an analyze call with a detected pose the status is poor exactly
\* when some reported angle magnitude exceeds its limit or the reported
\* distance is non-null and outside [min, max], and good otherwise; unknown is
\* returned only when no pose was detected; reported yaw 5, pitch 8,
\* shoulder tilt 3 and distance 60 give good.
C21_StatusFollowsReportedValues ==
    /\ pin.kind = "pose"
         => /\ presult.status = "poor" <=> OverLimit(presult)
            /\ presult.status = "good" <=> ~OverLimit(presult)
    /\ (presult # <<>> /\ presult.status = "unknown") => pin.kind # "pose"
    /\ (/\ pin.kind = "pose"
        /\ presult.head_side_angle = 5 * AngleScale
        /\ presult.head_updown_angle = 8 * AngleScale
        /\ presult.shoulder_tilt = 3 * AngleScale
        /\ presult.eye_distance_cm = 60 * DistScale)
         => presult.status = "good"

\* C21 witness: a pose whose reported shoulder tilt alone is over its limit is
\* classified poor
C21_Witness ==
    /\ pin.kind = "pose"
    /\ presult.status = "poor"
    /\ Abs(presult.head_side_angle) <= max_head_yaw * AngleScale
    /\ Abs(presult.head_updown_angle) <= max_head_pitch * AngleScale
    /\ Abs(presult.shoulder_tilt) > max_shoulder_tilt * AngleScale

\* C22: an analyze call with no frame or no pose landmarks returns status
\* unknown with yaw, pitch, shoulder tilt and distance null and leaves the
\* four smoothing buffers as they were.
C22_NoPoseGivesEmptyResult ==
    [][(pin'.kind # "pose" /\ presult' # <<>>)
         => /\ presult'.status = "unknown"
            /\ presult'.head_side_angle = None
            /\ presult'.head_updown_angle = None
            /\ presult'.shoulder_tilt = None
            /\ presult'.eye_distance_cm = None
            /\ UNCHANGED <<yaw_filter, pitch_filter, shoulder_filter,
                           dist_filter>>]_vars

\* C22 witness: a call without a pose made after calls that filled the buffers
C22_Witness ==
    /\ pin.kind = "no_pose"
    /\ presult # <<>>
    /\ presult.status = "unknown"
    /\ Len(yaw_filter) = AngleFilterCap
    /\ dist_filter # <<>>


\* the thresholds the last constructor call needs
KeysUsed ==
    IF built.class = "BlinkDetector" THEN BlinkKeys
    ELSE DrowsyIndexedKeys \cup DrowsyDefaultedKeys

\* C23 as stated: constructing BlinkDetector or DrowsinessDetector fails
\* with an error whenever a threshold it uses is missing from the
\* configuration, and no detector is created with a defaulted threshold.
C23_AsStated ==
    built # <<>>
      => /\ (~(KeysUsed \subseteq cfg) => built.outcome # "created")
         /\ (built.outcome = "created" => built.defaulted = {})

\* C24 as stated: after reset_statistics the cumulative count is 0 and the
\* histories are empty, and a closed-eye episode that began before the reset
\* (its start is not after the session start) registers no blink in the new
\* session.
C24_AsStated ==
    [][/\ (~BlinkUpdateStep /\ bop' = "reset_statistics")
            => /\ blink_count' = 0
               /\ blink_durations' = <<>>
               /\ blink_intervals' = <<>>
       /\ (BlinkUpdateStep /\ info'.blink_detected)
            => blink_start > session_start_time]_vars

\* C25: right after DrowsinessDetector.reset(), whatever the state it was
\* called in, every field of the detector has the value the constructor gives
\* it: the three timers and the last-seen time absent, the EAR buffer empty,
\* the low-frame counter 0, drowsy false and no release pending.  The
\* results of update depend on these fields, the inputs and the clock only,
\* so later calls return what a fresh detector returns.
C25_ResetGivesFreshState ==
    dop = "reset"
      => /\ ear_buf = <<>>
         /\ ear_low_start = None
         /\ ear_low_frames = 0
         /\ posture_bad_start = None
         /\ gaze_off_start = None
         /\ gaze_last_seen = None
         /\ drowsy = FALSE
         /\ drowsy_end_time = None

\* C25 witness: reset was called inside the release window, the detector
\* still drowsy with no condition true in the update before
C25_Witness ==
    /\ dop = "reset"
    /\ dinfo # <<>>
    /\ dinfo.drowsiness_detected
    /\ signals = <<FALSE, FALSE, FALSE>>
    /\ ear_buf = <<>>

\* C26 as stated: every recorded inter-blink interval is the time between
\* two valid blinks of the same session (so none is longer than the session
\* is old), and the first valid blink of a session records a duration but no
\* interval.
C26_AsStated ==
    /\ \A i \in 1..Len(blink_intervals) :
           blink_intervals[i] <= now - session_start_time
    /\ blink_count = 1
         => /\ Len(blink_durations) = 1
            /\ blink_intervals = <<>>

\* C27: the blink rate a call returns is exactly 0 whenever less than 60 s
\* have passed since the session start, whatever the cumulative blink count.
C27_RateZeroInFirstMinute ==
    (ap_out # <<>> /\ ap_elapsed < SessionMinute)
      => IF ap_out.op = "get_statistics"
         THEN ap_out.blink_rate_per_minute = 0
         ELSE ap_out.result.pattern # "insufficient_data"
                => ap_out.result.blink_rate_per_minute = 0

\* C27 witness: get_statistics one tick before the session is a minute old,
\* many blinks counted, returned the rate 0
C27_Witness ==
    /\ ap_out # <<>>
    /\ ap_out.op = "get_statistics"
    /\ ap_elapsed = SessionMinute - 1
    /\ ap_count > FrequentRate
    /\ ap_out.blink_rate_per_minute = 0

\* the recorded durations of which more than 3 in 10 are longer than 0.4 s
SlowFractionOver ==
    10 * Cardinality({i \in 1..Len(ap_durations) :
                          ap_durations[i] > SlowBlinkTicks})
      > 3 * Len(ap_durations)

\* more than 25 blinks a minute over the session (the rate is 0 in the first
\* minute)
RateOver ==
    /\ ap_elapsed >= SessionMinute
    /\ ap_count * SessionMinute > FrequentRate * ap_elapsed

\* C29: analyze_blink_pattern returns insufficient_data when fewer than 10
\* blink durations are recorded; otherwise the first of these that applies:
\* fatigue_detected when the slow-blink fraction is over 0.3,
\* stress_detected when the blink rate is over 25 a minute,
\* irregular_pattern when the rhythm irregularity is over 0.5, else normal.
C29_PatternFirstMatch ==
    (ap_out # <<>> /\ ap_out.op = "analyze_blink_pattern")
      => IF Len(ap_durations) < MinPatternSamples
         THEN ap_out.result.pattern = "insufficient_data"
         ELSE /\ ap_out.result.fatigue_indicators.frequent_blinks <=> RateOver
              /\ ap_out.result.pattern =
                   IF SlowFractionOver THEN "fatigue_detected"
                   ELSE IF RateOver THEN "stress_detected"
                   ELSE IF OverHalf(ap_out.result.fatigue_indicators.irregular_rhythm)
                        THEN "irregular_pattern"
                        ELSE "normal"

\* C29 witness: slow blinks, a high rate and an uneven rhythm together give
\* fatigue_detected
C29_Witness ==
    /\ ap_out # <<>>
    /\ ap_out.op = "analyze_blink_pattern"
    /\ Len(ap_durations) = MinPatternSamples
    /\ SlowFractionOver
    /\ RateOver
    /\ OverHalf(ap_out.result.fatigue_indicators.irregular_rhythm)
    /\ ap_out.result.pattern = "fatigue_detected"

\* the capacity the buffer under study is to have
StatedCapacity ==
    CASE bq_name = "_ear_buffer" -> 5
      [] bq_name = "_yaw_queue" -> 30
      [] bq_name = "blink_durations" -> 100
      [] bq_name = "blink_intervals" -> 100
      [] bq_name = "_ear_buf" -> 5
      [] bq_name = "_yaw_filter" -> 5
      [] bq_name = "_pitch_filter" -> 5
      [] bq_name = "_shoulder_filter" -> 5
      [] bq_name = "_dist_filter" -> 3

\* C28: after any number of appends each rolling buffer holds no more than
\* its capacity (EAR de-bounce 5, blink yaw 30, duration and interval
\* histories 100, drowsiness EAR 5, posture angles 5, posture distance 3)
\* and holds the most recent values in the order they came: the oldest is
\* the one dropped when the buffer is full.
C28_BuffersBoundedOldestFirst ==
    bq_name \in BufferNames
      => /\ Len(bq) <= StatedCapacity
         /\ Len(bq) = IF bq_appended < StatedCapacity THEN bq_appended
                      ELSE StatedCapacity
         /\ \A i \in 1..Len(bq) : bq[i] = bq_appended - Len(bq) + i

\* C28 witness: the interval history, full, has dropped its oldest values
C28_Witness ==
    /\ bq_name = "blink_intervals"
    /\ Len(bq) = 100
    /\ bq_appended > 100
    /\ bq[1] = bq_appended - 99

\* C30 as stated: however the capture thread and the processing loop
\* interleave, no captured sample is consumed by BlinkDetector.update more
\* than once, so the values in the de-bounce buffer come from distinct
\* captured frames.
C30_AsStated ==
    \A i \in 1..Len(fed) : \A j \in 1..Len(fed) : fed[i] = fed[j] => i = j

\* C39 as stated: every duration in the blink duration history is at least
\* min_blink_interval and at most max_blink_duration, whatever the timing of
\* the update calls.
C39_AsStated ==
    \A i \in 1..Len(blink_durations) :
        /\ blink_durations[i] >= min_blink_gap
        /\ blink_durations[i] <= max_blink_dur

\* C35 as stated: in every update result the reason is non-null exactly
\* when at least one of the three conditions is true in that update, it then
\* tells which signals are active (so it is never "Unknown"), and it is null
\* in the release window.
C35_AsStated ==
    dop = "update"
      => /\ dinfo.reason # "None" <=> AnySignal(signals)
         /\ AnySignal(signals) => dinfo.reason # "Unknown"
         /\ (dinfo.drowsiness_detected /\ ~AnySignal(signals))
              => dinfo.reason = "None"

\* the sum of the normalized angles of a buffer of per-frame angles in
\* degrees, in 1/AngleScale degree
RECURSIVE SumNormalized(_)
SumNormalized(q) ==
    IF q = <<>> THEN 0
    ELSE NormalizeAngleToZero(Head(q) * AngleScale) + SumNormalized(Tail(q))

\* every angle of the buffer, normalized, is within the limit (in degrees)
AllWithin(q, limit) ==
    \A i \in 1..Len(q) :
        Abs(NormalizeAngleToZero(q[i] * AngleScale)) <= limit * AngleScale

\* C34 as stated: for an analyze call with a pose, each reported angle is
\* the mean of the normalized angles of the frames in its buffer, and when
\* every buffered frame's normalized angle is within its limit the reported
\* angle is within the limit too.
C34_AsStated ==
    pin.kind = "pose"
      => /\ presult.head_side_angle * Len(yaw_filter)
              = SumNormalized(yaw_filter)
         /\ presult.head_updown_angle * Len(pitch_filter)
              = SumNormalized(pitch_filter)
         /\ presult.shoulder_tilt * Len(shoulder_filter)
              = SumNormalized(shoulder_filter)
         /\ AllWithin(yaw_filter, max_head_yaw)
              => Abs(presult.head_side_angle) <= max_head_yaw * AngleScale
         /\ AllWithin(pitch_filter, max_head_pitch)
              => Abs(presult.head_updown_angle) <= max_head_pitch * AngleScale
         /\ AllWithin(shoulder_filter, max_shoulder_tilt)
              => Abs(presult.shoulder_tilt) <= max_shoulder_tilt * AngleScale

\* C40 as stated: for every result analyze returns for a detected pose, the
\* status is poor exactly when the bad-posture predicate of
\* DrowsinessDetector._analyze_posture holds on that result.
C40_AsStated ==
    pin.kind = "pose" => (presult.status = "poor" <=> PostureBad(presult))

\* C38 as stated: after an analyze call that found no pose, get_latest()
\* has status unknown and null angles and distance, and the posture_data fed
\* to the drowsiness engine carries no angle or distance of an earlier frame.
C38_AsStated ==
    pf_in.kind = "no_pose" =>
        /\ GetLatestOf(latest).status = "unknown"
        /\ GetLatestOf(latest).head_side_angle = None
        /\ GetLatestOf(latest).eye_distance_cm = None
        /\ posture_data = EmptyDict

\* a reported distance lies outside [MIN_REASONABLE_DISTANCE,
\* MAX_REASONABLE_DISTANCE]
DistanceOutside(r) ==
    /\ r.eye_distance_cm # None
    /\ (r.eye_distance_cm < min_gaze_distance_cm * DistScale
        \/ r.eye_distance_cm > max_gaze_distance_cm * DistScale)

\* one of the three angles of a result exceeds its limit
AngleOver(r) ==
    \/ (r.head_side_angle # None
          /\ Abs(r.head_side_angle) > max_head_yaw * AngleScale)
    \/ (r.head_updown_angle # None
          /\ Abs(r.head_updown_angle) > max_head_pitch * AngleScale)
    \/ (r.shoulder_tilt # None
          /\ Abs(r.shoulder_tilt) > max_shoulder_tilt * AngleScale)

\* C37: in the pipeline every non-null distance PostureAnalyzer reports, and
\* every one handed to DrowsinessDetector.update, lies within
\* [MIN_REASONABLE_DISTANCE, MAX_REASONABLE_DISTANCE]; the gaze-off timer is
\* never started and the gaze-off condition is never true; a poor status and
\* a running bad-posture timer always come with an angle over its limit.
C37_ClampedDistanceNeverGazeOff ==
    /\ ~DistanceOutside(GetLatestOf(latest))
    /\ ~DistanceOutside(posture_data)
    /\ gaze_off_start = None
    /\ ~signals[3]
    /\ GetLatestOf(latest).status = "poor" => AngleOver(GetLatestOf(latest))
    /\ posture_bad_start # None => AngleOver(posture_data)

\* two frames whose raw distance estimates lie below and above the range have
\* been analyzed and their clamped values smoothed, and the drowsiness engine
\* was updated with the result
C37_Witness ==
    /\ processed_frames >= 2
    /\ Len(dist_filter) >= 2
    /\ \E i \in 1..Len(dist_filter) : dist_filter[i] = min_gaze_distance_cm
    /\ \E i \in 1..Len(dist_filter) : dist_filter[i] = max_gaze_distance_cm
    /\ posture_data.eye_distance_cm # None
    /\ dop = "update"

\* C31 as stated: under every interleaving of start(), stop() and the vision
\* threads, at most one thread is inside process_frame at a time, so no
\* application's detectors are driven by two loops at once.
C31_AsStated == Cardinality(Processing) <= 1

\* the rewriter node has run at most max_retries times, and each time it was
\* entered answer_valid was false and retry_count was below max_retries
RewriterBounded ==
    /\ CountIn(cb_path, "rewriter") <= retries_limit
    /\ Len(cb_rewrites) = CountIn(cb_path, "rewriter")
    /\ \A i \in 1..Len(cb_rewrites) :
           /\ ~cb_rewrites[i].answer_valid
           /\ cb_rewrites[i].retry_count < retries_limit
    /\ cb_node = "rewriter" => (~answer_valid /\ retry_count < retries_limit)

StatedOrder(intent) ==
    IF intent = "realtime_data"
    THEN <<"csv_node", "generator", "answer_grader">>
    ELSE IF intent = "both"
    THEN <<"csv_node", "retriever_node", "doc_grader", "generator",
           "answer_grader">>
    ELSE <<"retriever_node", "doc_grader", "generator", "answer_grader">>

\* C33: every run starts at guardrails; a social route runs social_bot and
\* ends without contextualize; a health route runs contextualize, then
\* query_analysis; after query_analysis the nodes run in the order stated
\* for the intent (realtime_data: csv_node, generator, with no
\* retriever_node or doc_grader; both: csv_node, retriever_node, doc_grader,
\* generator, answer_grader; chunked_data: retriever_node, doc_grader,
\* generator, answer_grader).
C33_NodeOrder ==
    /\ cb_path # <<>> => cb_path[1] = "guardrails"
    /\ (Len(cb_path) >= 2 /\ route = "social") =>
           /\ cb_path = <<"guardrails", "social_bot">>
           /\ cb_node = "END"
    /\ (Len(cb_path) >= 2 /\ route = "health") =>
           cb_path[2] = "contextualize"
    /\ (Len(cb_path) >= 3 /\ route = "health") =>
           cb_path[3] = "query_analysis"
    /\ CountIn(cb_path, "social_bot") > 0 =>
           CountIn(cb_path, "contextualize") = 0
    /\ cb_input.intent = "realtime_data" =>
           /\ CountIn(cb_path, "retriever_node") = 0
           /\ CountIn(cb_path, "doc_grader") = 0
    /\ \A i \in 1..Len(cb_path) :
           cb_path[i] = "query_analysis" =>
               \A k \in 1..Len(StatedOrder(analyzed_intent)) :
                   i + k <= Len(cb_path) =>
                       cb_path[i + k] = StatedOrder(analyzed_intent)[k]

\* a health question about both the logs and the documents was answered at
\* the first attempt: the run is at END after all eight nodes
C33_Witness ==
    /\ cb_node = "END"
    /\ cb_input.intent = "both"
    /\ cb_path = <<"guardrails", "contextualize", "query_analysis",
                   "csv_node", "retriever_node", "doc_grader", "generator",
                   "answer_grader">>

\* C36 as stated: after a rewrite, the sub_queries csv_node and
\* retriever_node read in the next attempt hold the query rewriter_node
\* produced.
C36_AsStated ==
    \A i \in 1..Len(cb_read) :
        cb_read[i].retry_count >= 1 =>
            cb_read[i].sub_queries = <<Rewritten(cb_read[i].retry_count)>>
====
